---------------------------- MODULE Spec2Model ----------------------------
(***************************************************************************)
(* A model of the hybrid retrieval engine of rag-project: the per-document *)
(* FAISS shard registry (app/storage/faiss_index.py), score fusion and the *)
(* retrieval orchestration (app/services/retrieval.py), the external       *)
(* reranker adapter (app/services/rerank.py) and the chunk metadata store  *)
(* (app/storage/metadata.py).                                              *)
(*                                                                         *)
(* Scores are Python floats in the code.  They are modelled as exact       *)
(* rationals <<numerator, denominator>> in lowest terms with a positive    *)
(* denominator, so that 1/(1+d), 0.7*s and s/10 are computed, not          *)
(* approximated; floating-point rounding is outside the model.             *)
(* A Python dict is modelled as a sequence of <<key, value>> pairs with    *)
(* distinct keys, in insertion order (dicts keep insertion order).         *)
(* A chunk id or a content hash is a string in the code; it is modelled as *)
(* the sequence of its characters so that rsplit('_', 1) and int() can be  *)
(* computed on it.                                                         *)
(***************************************************************************)
EXTENDS Integers, Sequences, FiniteSets, TLC

VARIABLES
    index_dir,            \* FAISSIndex.index_dir is set (per-document storage mode)
    index_files,          \* the shard files lying in the index directory
    document_indices,     \* FAISSIndex.document_indices : dict sha1 -> index
    document_chunk_maps,  \* FAISSIndex.document_chunk_maps : dict sha1 -> chunk ids
    index,                \* FAISSIndex.index : the global index, or None
    chunk_ids,            \* FAISSIndex.chunk_ids : the global index's chunk ids
    chunks,               \* MetadataStorage.chunks : dict chunk_id -> chunk
    chunked_reports,      \* the chunk-source files of chunked_reports_dir, in glob order
    bm25,                 \* RetrievalService.bm25 : the tokenized corpus, or None
    bm25_chunk_ids,       \* RetrievalService.bm25_chunk_ids
    api_key,              \* RerankService.api_key is set
    call                  \* the last call made, with its arguments and what it returned

vars == <<index_dir, index_files, document_indices, document_chunk_maps, index,
          chunk_ids, chunks, chunked_reports, bm25, bm25_chunk_ids, api_key, call>>

faissVars == <<index_dir, index_files, document_indices, document_chunk_maps,
               index, chunk_ids>>
storeVars == <<chunks, chunked_reports>>
lexVars == <<bm25, bm25_chunk_ids>>

\* Python's None, and a value that is not None
None == [none |-> TRUE]
Some(v) == [none |-> FALSE, val |-> v]
\* "if x:" for an optional string
Truthy(x) == ~x.none /\ x.val # <<>>

-----------------------------------------------------------------------------
(* Bounds of the model.                                                    *)

MaxVec == 2        \* longest vector result list handed to score fusion
MaxLex == 2        \* longest lexical result list handed to score fusion
MaxDocs == 3       \* longest candidate list handed to the reranker
MaxTopK == 3       \* largest top_k of a call
MaxItems == 2      \* longest results list of a rerank response

-----------------------------------------------------------------------------
(* Exact rational arithmetic for the float scores.                         *)

Abs(n) == IF n < 0 THEN -n ELSE n

RECURSIVE GCD(_, _)
GCD(a, b) == IF b = 0 THEN a ELSE GCD(b, a % b)

\* n/d in lowest terms with a positive denominator (d # 0)
Rat(n, d) ==
    LET s == IF d < 0 THEN -1 ELSE 1
        g == GCD(Abs(n), Abs(d))
    IN  <<(s * n) \div g, (s * d) \div g>>

RZero == <<0, 1>>
ROne == <<1, 1>>
RInt(n) == <<n, 1>>
RAdd(x, y) == Rat(x[1] * y[2] + y[1] * x[2], x[2] * y[2])
RMul(x, y) == Rat(x[1] * y[1], x[2] * y[2])
RDiv(x, y) == Rat(x[1] * y[2], x[2] * y[1])
RLt(x, y) == x[1] * y[2] < y[1] * x[2]
RLe(x, y) == x[1] * y[2] <= y[1] * x[2]
RGt(x, y) == RLt(y, x)

-----------------------------------------------------------------------------
(* Python sequences, slices and dicts.                                     *)

Min(a, b) == IF a < b THEN a ELSE b

\* F(v) with v evaluated once: a value bound to a name, as an assignment in
\* the code binds it
With(v, F(_)) == CHOOSE r \in {F(x) : x \in {v}} : TRUE

\* s[:k] for k >= 0
Take(s, k) == SubSeq(s, 1, Min(k, Len(s)))

Range(s) == {s[i] : i \in DOMAIN s}

DistinctSeqs(S, n) ==
    {s \in UNION {[1..m -> S] : m \in 0..n} :
        \A i, j \in DOMAIN s : i # j => s[i] # s[j]}

DictKeys(d) == {d[i][1] : i \in DOMAIN d}
DictHas(d, k) == k \in DictKeys(d)
\* d.get(k, default)
DictGet(d, k, default) ==
    IF DictHas(d, k) THEN d[CHOOSE i \in DOMAIN d : d[i][1] = k][2] ELSE default
\* d[k] = v : an existing key keeps its place, a new key goes last
DictSet(d, k, v) ==
    IF DictHas(d, k)
    THEN [i \in DOMAIN d |-> IF d[i][1] = k THEN <<k, v>> ELSE d[i]]
    ELSE Append(d, <<k, v>>)

\* sorted(seq, key=..., reverse=True) is stable: among equal keys the input
\* order is kept.  keys[i] is the key of the i-th element; the result is the
\* sequence of input positions in output order.
RankDesc(keys, i) ==
    Cardinality({j \in DOMAIN keys :
        RGt(keys[j], keys[i]) \/ (keys[j] = keys[i] /\ j < i)}) + 1
SortedDescPerm(keys) ==
    [r \in DOMAIN keys |-> CHOOSE i \in DOMAIN keys : RankDesc(keys, i) = r]

\* sorted(seq, key=...) / list.sort(key=...), ascending and stable
RankAsc(keys, i) ==
    Cardinality({j \in DOMAIN keys :
        RLt(keys[j], keys[i]) \/ (keys[j] = keys[i] /\ j < i)}) + 1
SortedAscPerm(keys) ==
    [r \in DOMAIN keys |-> CHOOSE i \in DOMAIN keys : RankAsc(keys, i) = r]

Permute(seq, perm) == [r \in DOMAIN seq |-> seq[perm[r]]]

-----------------------------------------------------------------------------
(* Chunk ids and content hashes, as character sequences.                   *)

Digit == <<"0", "1", "2", "3", "4", "5", "6", "7", "8", "9">>

\* str(n) for n >= 0
RECURSIVE IntToStr(_)
IntToStr(n) ==
    IF n < 10 THEN <<Digit[n + 1]>> ELSE Append(IntToStr(n \div 10), Digit[(n % 10) + 1])

\* f"{sha1}_{idx}"
MakeChunkId(sha1, idx) == sha1 \o <<"_">> \o IntToStr(idx)

ShaA == <<"a">>
ShaB == <<"b">>
ShaC == <<"c">>

-----------------------------------------------------------------------------
(* RetrievalService._combine_results: score fusion.                        *)

VECTOR_WEIGHT == Rat(7, 10)
BM25_WEIGHT == Rat(3, 10)
BM25_NORM == Rat(10, 1)

\* The branch on a vector score.  Every score FAISSIndex.search returns is a
\* Python float (float(distances[0][i])), so isinstance(dist, float) holds and
\* the else branch is taken exactly when dist <= 0, where it yields 0.0.
combine_similarity(dist) ==
    IF RGt(dist, RZero)
    THEN RDiv(ROne, RAdd(ROne, dist))
    ELSE (IF RGt(dist, RZero) THEN dist ELSE RZero)

\* scores[cid] = scores.get(cid, 0) + similarity * 0.7
vector_contribution_overwrites(scores, cid, dist) ==
    DictSet(scores, cid, RMul(combine_similarity(dist), VECTOR_WEIGHT))
vector_contribution(scores, cid, dist) ==
    DictSet(scores, cid,
            RAdd(DictGet(scores, cid, RZero), RMul(combine_similarity(dist), VECTOR_WEIGHT)))

\* scores[cid] = scores.get(cid, 0) + (score / 10.0) * 0.3
bm25_contribution_overwrites(scores, cid, score) ==
    DictSet(scores, cid, RMul(RDiv(score, BM25_NORM), BM25_WEIGHT))
bm25_contribution(scores, cid, score) ==
    DictSet(scores, cid,
            RAdd(DictGet(scores, cid, RZero), RMul(RDiv(score, BM25_NORM), BM25_WEIGHT)))

RECURSIVE add_vector_results(_, _)
add_vector_results(scores, vector_results) ==
    IF vector_results = <<>> THEN scores
    ELSE With(vector_contribution(scores, Head(vector_results)[1], Head(vector_results)[2]),
              LAMBDA updated : add_vector_results(updated, Tail(vector_results)))

RECURSIVE add_bm25_results(_, _)
add_bm25_results(scores, bm25_results) ==
    IF bm25_results = <<>> THEN scores
    ELSE With(bm25_contribution(scores, Head(bm25_results)[1], Head(bm25_results)[2]),
              LAMBDA updated : add_bm25_results(updated, Tail(bm25_results)))

\* sorted(scores.items(), key=lambda x: x[1], reverse=True)
sort_fused_ascending_reversed(scores) ==
    LET perm == SortedAscPerm([i \in DOMAIN scores |-> scores[i][2]])
    IN  [r \in DOMAIN scores |-> scores[perm[Len(scores) + 1 - r]]]
sort_fused(scores) ==
    Permute(scores, SortedDescPerm([i \in DOMAIN scores |-> scores[i][2]]))

combine_results(vector_results, bm25_results) ==
    With(add_vector_results(<<>>, vector_results), LAMBDA vector_scores :
    With(add_bm25_results(vector_scores, bm25_results), LAMBDA scores :
         sort_fused(scores)))

-----------------------------------------------------------------------------
(* RerankService.rerank.                                                   *)

\* sorted(documents, key=lambda x: x.get("similarity", 0.0), reverse=True)[:top_k]
rerank_fallback_unsorted(documents, top_k) == Take(documents, top_k)
rerank_fallback(documents, top_k) ==
    Take(Permute(documents, SortedDescPerm([i \in DOMAIN documents |-> documents[i].similarity])),
         top_k)

\* One item of result["results"].  type is "dict" or "other" (a JSON value that
\* is no object); index is <<"int", n>>, <<"str">> (a value of the wrong type)
\* or <<"missing">>; relevance_score is <<"num", r>> or <<"missing">>.
\* item.get("index", 0)
ItemIndex(item) == IF item.index[1] = "missing" THEN <<"int", 0>> ELSE item.index
\* item.get("relevance_score", 0.0)
ItemScore(item) ==
    IF item.relevance_score[1] = "missing" THEN RZero ELSE item.relevance_score[2]

Ok(v) == [exc |-> "none", value |-> v]
Raise(e) == [exc |-> e, value |-> <<>>]

\* documents[doc_index].copy() with "similarity" and "rerank_score" set
rerank_keeps_similarity(doc, score) == [rerank_score |-> score] @@ doc
rerank_scored(doc, score) == [similarity |-> score, rerank_score |-> score] @@ doc

\* The for loop over result["results"]: each item appends a copy of
\* documents[doc_index] with the relevance score; an item that is no dict
\* (AttributeError), an index of the wrong type (TypeError) or an index below
\* -len(documents) (IndexError) raises out of the loop.
RECURSIVE rerank_items(_, _, _)
rerank_items(documents, items, acc) ==
    IF items = <<>> THEN Ok(acc)
    ELSE LET item == Head(items) IN
         IF item.type # "dict" THEN Raise("Exception")
         ELSE IF ItemIndex(item)[1] # "int" THEN Raise("Exception")
         ELSE LET doc_index == ItemIndex(item)[2] IN
              IF doc_index < Len(documents)
              THEN IF doc_index < -Len(documents) THEN Raise("Exception")
                   ELSE LET pos == IF doc_index >= 0 THEN doc_index + 1
                                   ELSE Len(documents) + doc_index + 1
                        IN  rerank_items(documents, Tail(items),
                                Append(acc, rerank_scored(documents[pos], ItemScore(item))))
              ELSE rerank_items(documents, Tail(items), acc)

\* The body of the try block: requests.post and raise_for_status (a connection
\* error, a timeout and an HTTP error status are RequestExceptions),
\* response.json() and the parse of the result.  response.json is
\* [has_results, iterable, results]: whether the body has a "results" key,
\* whether its value can be iterated, and its items.
rerank_try(documents, response) ==
    IF response.kind = "RequestException" THEN Raise("RequestException")
    ELSE IF response.kind = "InvalidJson" THEN Raise("Exception")
    ELSE LET result == response.json IN
         IF result.has_results
         THEN IF ~result.iterable THEN Raise("Exception")
              ELSE rerank_items(documents, result.results, <<>>)
         ELSE Ok(<<>>)

\* except requests.exceptions.RequestException / except Exception
rerank_except_reraises(documents, top_k, exc) == Raise(exc)
rerank_except(documents, top_k, exc) == Ok(rerank_fallback(documents, top_k))

rerank(documents, top_k, key, response) ==
    IF documents = <<>> THEN Ok(<<>>)
    ELSE IF ~key THEN Ok(rerank_fallback(documents, top_k))
    ELSE LET r == rerank_try(documents, response) IN
         IF r.exc = "none" THEN r ELSE rerank_except(documents, top_k, r.exc)

-----------------------------------------------------------------------------
(* Embedding vectors and the FAISS flat indexes.                           *)
(* An embedding is a vector of two integers whose Euclidean norm is an     *)
(* integer, so that its L2-normalized form is rational.                    *)

MaxNorm == 5       \* largest norm of an embedding

AsRational(v) == [i \in DOMAIN v |-> RInt(v[i])]

\* np.linalg.norm of an embedding
Norm(v) == CHOOSE n \in 0..MaxNorm : n * n = v[1] * v[1] + v[2] * v[2]

\* embeddings_array / norms, with norms[norms == 0] = 1
Normalized(v) ==
    LET n == IF Norm(v) = 0 THEN 1 ELSE Norm(v)
    IN  [i \in DOMAIN v |-> Rat(v[i], n)]

InnerProduct(u, v) == RAdd(RMul(u[1], v[1]), RMul(u[2], v[2]))
SquaredDistance(u, v) ==
    LET d1 == RAdd(u[1], RMul(RInt(-1), v[1]))
        d2 == RAdd(u[2], RMul(RInt(-1), v[2]))
    IN  RAdd(RMul(d1, d1), RMul(d2, d2))

\* faiss.IndexFlatIP(dimension) / faiss.IndexFlatL2(dimension) after index.add
IndexFlatIP(vectors) == [type |-> "IndexFlatIP", vectors |-> vectors]
IndexFlatL2(vectors) == [type |-> "IndexFlatL2", vectors |-> vectors]
NoneIndex == [type |-> "None", vectors |-> <<>>]

\* The index a build makes of a list of embeddings: normalized vectors under
\* inner product for cosine, the raw vectors under squared L2 distance otherwise.
create_index_unnormalized(embeddings, use_cosine) ==
    IF use_cosine
    THEN IndexFlatIP([i \in DOMAIN embeddings |-> AsRational(embeddings[i])])
    ELSE IndexFlatL2([i \in DOMAIN embeddings |-> AsRational(embeddings[i])])
create_index(embeddings, use_cosine) ==
    IF use_cosine
    THEN IndexFlatIP([i \in DOMAIN embeddings |-> Normalized(embeddings[i])])
    ELSE IndexFlatL2([i \in DOMAIN embeddings |-> AsRational(embeddings[i])])

\* the score a flat index gives a stored vector for a query
IndexScore(idx, q, p) ==
    IF idx.type = "IndexFlatIP"
    THEN InnerProduct(q, idx.vectors[p])
    ELSE SquaredDistance(q, idx.vectors[p])

\* index.search(np_query, top_k): the top_k best stored vectors, best first
\* (largest inner product, or smallest distance), as [idx, score] with idx
\* counted from 0, padded with idx = -1 when the index holds fewer than top_k
\* vectors.  The library does not specify the order of equal scores: tie says
\* whether the lower or the higher position comes first.
IndexSearch(idx, q, top_k, tie) ==
    LET n == Len(idx.vectors)
        at(i) == IF tie = "low" THEN i ELSE n + 1 - i
        keys == [i \in 1..n |-> IndexScore(idx, q, at(i))]
        perm == IF idx.type = "IndexFlatIP" THEN SortedDescPerm(keys) ELSE SortedAscPerm(keys)
    IN  [r \in 1..top_k |->
            IF r <= n THEN [idx |-> at(perm[r]) - 1, score |-> keys[perm[r]]]
            ELSE [idx |-> -1, score |-> RZero]]

-----------------------------------------------------------------------------
(* FAISSIndex._load_document_indices.                                      *)
(* A file of index_files is one *.faiss file of the directory with what    *)
(* lies beside it: [sha1, readable, index, ids, chunk_ids], where readable *)
(* says whether faiss.read_index succeeds and ids is "missing", "ok" or    *)
(* "corrupt" (pickle.load raises) for the .faiss.ids file.                 *)

load_one_file(registry, file) ==
    IF ~file.readable THEN registry
    ELSE LET indices == DictSet(registry[1], file.sha1, file.index) IN
         IF file.ids = "ok" THEN <<indices, DictSet(registry[2], file.sha1, file.chunk_ids)>>
         ELSE <<indices, registry[2]>>

\* <<document_indices, document_chunk_maps>> after the loop over the files
RECURSIVE load_document_indices(_, _)
load_document_indices(registry, files) ==
    IF files = <<>> THEN registry
    ELSE load_document_indices(load_one_file(registry, Head(files)), Tail(files))

-----------------------------------------------------------------------------
(* FAISSIndex.search.  A hit is [chunk_id, score] as the code returns it,  *)
(* with where it came from (sha1, pos) kept beside it for the properties:  *)
(* the shard key, or <<>> for the global index, and the vector position.   *)

Hit(cid, score, sha1, pos) == [chunk_id |-> cid, score |-> score, sha1 |-> sha1, pos |-> pos]

\* the loop over indices[0]: idx != -1 and idx < len(chunk_ids)
map_positions_unchecked(raw, ids, sha1) ==
    LET kept == SelectSeq(raw, LAMBDA r : r.idx # -1)
    IN  [i \in DOMAIN kept |->
            Hit(IF kept[i].idx < Len(ids) THEN ids[kept[i].idx + 1] ELSE IntToStr(kept[i].idx),
                kept[i].score, sha1, kept[i].idx)]
map_positions(raw, ids, sha1) ==
    LET kept == SelectSeq(raw, LAMBDA r : r.idx # -1 /\ r.idx < Len(ids))
    IN  [i \in DOMAIN kept |-> Hit(ids[kept[i].idx + 1], kept[i].score, sha1, kept[i].idx)]

\* the query as the shard is searched with it: normalized for an inner
\* product index unless its norm is 0
scoped_query(idx, query_embedding) ==
    IF idx.type = "IndexFlatIP" /\ Norm(query_embedding) > 0
    THEN Normalized(query_embedding)
    ELSE AsRational(query_embedding)

\* one turn of the loop over document_indices.items()
search_one_of_all(query_embedding, top_k, sha1, idx, tie) ==
    LET ids == DictGet(document_chunk_maps, sha1, <<>>) IN
    IF ids = <<>> THEN <<>>
    ELSE IF idx.type = "IndexFlatIP" /\ Norm(query_embedding) = 0 THEN <<>>
    ELSE map_positions(IndexSearch(idx, scoped_query(idx, query_embedding), top_k, tie),
                       ids, sha1)

RECURSIVE gather_all_documents(_, _, _, _)
gather_all_documents(query_embedding, top_k, items, tie) ==
    IF items = <<>> THEN <<>>
    ELSE search_one_of_all(query_embedding, top_k, Head(items)[1], Head(items)[2], tie)
         \o gather_all_documents(query_embedding, top_k, Tail(items), tie)

\* all_results.sort(...): descending if the first index of the registry is an
\* inner product index, ascending otherwise
sort_all_results_descending(all_results) ==
    Permute(all_results, SortedDescPerm([i \in DOMAIN all_results |-> all_results[i].score]))
sort_all_results(all_results) ==
    LET keys == [i \in DOMAIN all_results |-> all_results[i].score]
        first_index == document_indices[1][2]
    IN  IF first_index.type = "IndexFlatIP"
        THEN Permute(all_results, SortedDescPerm(keys))
        ELSE Permute(all_results, SortedAscPerm(keys))

\* the scatter-gather branch (no document_sha1, index_dir set, registry not empty)
search_all_first_shard_only(query_embedding, top_k, tie) ==
    search_one_of_all(query_embedding, top_k, document_indices[1][1], document_indices[1][2], tie)
search_all_documents(query_embedding, top_k, tie) ==
    LET all_results == gather_all_documents(query_embedding, top_k, document_indices, tie)
    IN  IF all_results # <<>> THEN Take(sort_all_results(all_results), top_k) ELSE <<>>

\* the per-document branch (document_sha1 given, index_dir set)
search_document_all_shards(query_embedding, top_k, document_sha1, tie) ==
    search_all_documents(query_embedding, top_k, tie)
search_document(query_embedding, top_k, document_sha1, tie) ==
    IF ~DictHas(document_indices, document_sha1) THEN <<>>
    ELSE LET idx == DictGet(document_indices, document_sha1, NoneIndex)
             ids == DictGet(document_chunk_maps, document_sha1, <<>>)
         IN  map_positions(IndexSearch(idx, scoped_query(idx, query_embedding), top_k, tie),
                           ids, document_sha1)

\* the global index branch
search_global(query_embedding, top_k, tie) ==
    IF index.type = "None" THEN <<>>
    ELSE map_positions(IndexSearch(index, AsRational(query_embedding), top_k, tie),
                       chunk_ids, <<>>)

faiss_search(query_embedding, top_k, document_sha1, tie) ==
    IF Truthy(document_sha1) /\ index_dir
    THEN search_document(query_embedding, top_k, document_sha1.val, tie)
    ELSE IF index_dir /\ document_indices # <<>>
         THEN search_all_documents(query_embedding, top_k, tie)
         ELSE search_global(query_embedding, top_k, tie)

\* what the caller gets: the (chunk_id, score) pairs
Pairs(hits) == [i \in DOMAIN hits |-> <<hits[i].chunk_id, hits[i].score>>]

\* The two writes of a shard build into the index directory files.
\* faiss.write_index(index, "{sha1}.faiss"): outcome "ok" leaves the new vector
\* data beside whatever .faiss.ids file was there; a failed write leaves the
\* directory as it was ("untouched") or a file that cannot be read ("truncated").
write_index(files, sha1, built, outcome) ==
    LET present == \E f \in DOMAIN files : files[f].sha1 = sha1
        fresh == [sha1 |-> sha1, readable |-> outcome = "ok", index |-> built,
                  ids |-> "missing", chunk_ids |-> <<>>]
    IN  IF outcome = "untouched" THEN files
        ELSE IF present
        THEN [f \in DOMAIN files |->
                 IF files[f].sha1 = sha1
                 THEN [files[f] EXCEPT !.readable = (outcome = "ok"), !.index = built]
                 ELSE files[f]]
        ELSE Append(files, fresh)

\* pickle.dump(chunk_ids, open("{sha1}.faiss.ids", "wb")): outcome "ok" leaves
\* the new id list; a failed write leaves the file as it was ("untouched") or
\* one that cannot be unpickled ("truncated").
write_ids(files, sha1, ids, outcome) ==
    [f \in DOMAIN files |->
        IF files[f].sha1 # sha1 \/ outcome = "untouched" THEN files[f]
        ELSE IF outcome = "ok" THEN [files[f] EXCEPT !.ids = "ok", !.chunk_ids = ids]
        ELSE [files[f] EXCEPT !.ids = "corrupt", !.chunk_ids = <<>>]]

\* FAISSIndex.build_index_for_document(embeddings, chunk_ids, sha1, use_cosine):
\* the exception it raises, if any, and the registry and the index directory
\* afterwards.  The file it writes keeps the embeddings it was built from
\* beside it for the properties.
build_index_for_document(embeddings, ids, sha1, use_cosine) ==
    IF embeddings = <<>>
    THEN [exc |-> "none", document_indices |-> document_indices,
          document_chunk_maps |-> document_chunk_maps, index_files |-> index_files]
    ELSE IF ~index_dir
    THEN [exc |-> "ValueError", document_indices |-> document_indices,
          document_chunk_maps |-> document_chunk_maps, index_files |-> index_files]
    ELSE LET built == create_index(embeddings, use_cosine)
             file == [sha1 |-> sha1, readable |-> TRUE, index |-> built, ids |-> "ok",
                      chunk_ids |-> ids, embeddings |-> embeddings]
         IN  [exc |-> "none",
              document_indices |-> DictSet(document_indices, sha1, built),
              document_chunk_maps |-> DictSet(document_chunk_maps, sha1, ids),
              index_files |-> IF \E f \in DOMAIN index_files : index_files[f].sha1 = sha1
                              THEN [f \in DOMAIN index_files |->
                                       IF index_files[f].sha1 = sha1 THEN file
                                       ELSE index_files[f]]
                              ELSE Append(index_files, file)]

\* FAISSIndex.build_index: the global index over all embeddings
build_index(embeddings) == IndexFlatL2([i \in DOMAIN embeddings |-> AsRational(embeddings[i])])

-----------------------------------------------------------------------------
(* MetadataStorage.                                                        *)
(* A chunk is a record with chunk_id, document_name and text (and, once a  *)
(* search has hydrated it, similarity).  A file of chunked_reports is      *)
(* [json, stem, sha1, file_name, chunks]: json says whether json.load      *)
(* gives a document record (reading any other file raises inside the scan  *)
(* and the file is skipped), stem is the file's name without ".json",      *)
(* sha1 and file_name are metainfo's entries (None when missing), and      *)
(* chunks[i].text is [type |-> "str", val |-> characters] or               *)
(* [type |-> "other"] for a text that is no string.                        *)

\* not text.strip(): only whitespace (or nothing at all)
IsBlank(text) == \A i \in DOMAIN text : text[i] = " "

\* a in b, for strings
IsSubstring(a, b) == \E i \in 0..(Len(b) - Len(a)) : SubSeq(b, i + 1, i + Len(a)) = a

\* Path(file_name).stem : the name without its last suffix
Stem(file_name) ==
    LET dots == {i \in DOMAIN file_name : file_name[i] = "." /\ i > 1}
    IN  IF dots = {} THEN file_name
        ELSE SubSeq(file_name, 1, (CHOOSE i \in dots : \A j \in dots : j <= i) - 1)

\* chunk_id.rsplit('_', 1) of a chunk id that holds a '_'
rsplit_at_first(chunk_id) ==
    LET p == CHOOSE i \in DOMAIN chunk_id :
                 /\ chunk_id[i] = "_"
                 /\ \A j \in DOMAIN chunk_id : chunk_id[j] = "_" => i <= j
    IN  <<SubSeq(chunk_id, 1, p - 1), SubSeq(chunk_id, p + 1, Len(chunk_id))>>
rsplit(chunk_id) ==
    LET p == CHOOSE i \in DOMAIN chunk_id :
                 /\ chunk_id[i] = "_"
                 /\ \A j \in DOMAIN chunk_id : chunk_id[j] = "_" => j <= i
    IN  <<SubSeq(chunk_id, 1, p - 1), SubSeq(chunk_id, p + 1, Len(chunk_id))>>

IsDigit(c) == \E d \in DOMAIN Digit : Digit[d] = c
DigitValue(c) == (CHOOSE d \in DOMAIN Digit : Digit[d] = c) - 1
RECURSIVE DigitsToInt(_)
DigitsToInt(s) ==
    IF s = <<>> THEN 0
    ELSE DigitsToInt(SubSeq(s, 1, Len(s) - 1)) * 10 + DigitValue(s[Len(s)])

\* int(index_str): decimal digits after an optional sign, ValueError otherwise
parse_int(index_str) ==
    LET signed == index_str # <<>> /\ index_str[1] \in {"-", "+"}
        digits == IF signed THEN Tail(index_str) ELSE index_str
    IN  IF digits = <<>> \/ \E i \in DOMAIN digits : ~IsDigit(digits[i])
        THEN Raise("ValueError")
        ELSE Ok(IF signed /\ index_str[1] = "-" THEN -DigitsToInt(digits)
                ELSE DigitsToInt(digits))

\* the chunk dict get_chunk builds from a source file
chunk_dict(chunk_id, file, text) ==
    [chunk_id |-> chunk_id,
     document_name |-> IF file.file_name.none THEN Stem(file.stem)
                       ELSE IF file.file_name.val = <<>> THEN file.stem
                       ELSE Stem(file.file_name.val),
     text |-> text]

\* The loop over chunked_reports_path.glob("*.json"): the chunk of the first
\* file that can be read, carries the sha1 and has a text that is not blank at
\* the index; a file whose reading raises is skipped.
RECURSIVE scan_chunked_reports_aborts(_, _, _, _)
scan_chunked_reports_aborts(files, chunk_id, sha1, position) ==
    IF files = <<>> THEN None
    ELSE LET file == Head(files)
             rest == scan_chunked_reports_aborts(Tail(files), chunk_id, sha1, position)
         IN  IF ~file.json THEN None
             ELSE IF file.sha1 # Some(sha1) THEN rest
             ELSE IF ~(0 <= position /\ position < Len(file.chunks)) THEN rest
             ELSE LET text == file.chunks[position + 1].text IN
                  IF text.type # "str" THEN None
                  ELSE IF text.val = <<>> \/ IsBlank(text.val) THEN rest
                  ELSE Some(chunk_dict(chunk_id, file, text.val))
RECURSIVE scan_chunked_reports(_, _, _, _)
scan_chunked_reports(files, chunk_id, sha1, position) ==
    IF files = <<>> THEN None
    ELSE LET file == Head(files)
             rest == scan_chunked_reports(Tail(files), chunk_id, sha1, position)
         IN  IF ~file.json THEN rest
             ELSE IF file.sha1 # Some(sha1) THEN rest
             ELSE IF ~(0 <= position /\ position < Len(file.chunks)) THEN rest
             ELSE LET text == file.chunks[position + 1].text IN
                  IF text.type # "str" THEN rest
                  ELSE IF text.val = <<>> \/ IsBlank(text.val) THEN rest
                  ELSE Some(chunk_dict(chunk_id, file, text.val))

\* except (ValueError, AttributeError): the id could not be parsed
get_chunk_except_reraises(store, exc) == [detail |-> None, chunks |-> store, exc |-> exc]
get_chunk_except(store, exc) == [detail |-> None, chunks |-> store, exc |-> "none"]

\* MetadataStorage.get_chunk on the cache store: what it returns (detail), the
\* cache afterwards (chunks) and the exception that leaves it, if any (exc)
get_chunk_uncached(store, chunk_id) ==
    IF DictHas(store, chunk_id)
    THEN [detail |-> Some(DictGet(store, chunk_id, <<>>)), chunks |-> store, exc |-> "none"]
    ELSE IF "_" \notin Range(chunk_id) THEN [detail |-> None, chunks |-> store, exc |-> "none"]
    ELSE LET parts == rsplit(chunk_id)
             position == parse_int(parts[2])
         IN  IF position.exc # "none" THEN get_chunk_except(store, position.exc)
             ELSE [detail |-> scan_chunked_reports(chunked_reports, chunk_id,
                                                   parts[1], position.value),
                   chunks |-> store, exc |-> "none"]
get_chunk(store, chunk_id) ==
    IF DictHas(store, chunk_id)
    THEN [detail |-> Some(DictGet(store, chunk_id, <<>>)), chunks |-> store, exc |-> "none"]
    ELSE IF "_" \notin Range(chunk_id) THEN [detail |-> None, chunks |-> store, exc |-> "none"]
    ELSE LET parts == rsplit(chunk_id)
             position == parse_int(parts[2])
         IN  IF position.exc # "none" THEN get_chunk_except(store, position.exc)
             ELSE LET found == scan_chunked_reports(chunked_reports, chunk_id,
                                                    parts[1], position.value)
                  IN  IF found.none THEN [detail |-> None, chunks |-> store, exc |-> "none"]
                      ELSE [detail |-> found, chunks |-> DictSet(store, chunk_id, found.val),
                            exc |-> "none"]

\* set(get_chunk_ids_by_document_name(product_name, fuzzy_match=True))
filter_by_document_name(store, product_name) ==
    {store[i][2].chunk_id :
        i \in {j \in DOMAIN store :
                 \/ IsSubstring(product_name, store[j][2].document_name)
                 \/ IsSubstring(store[j][2].document_name, product_name)}}

\* MetadataStorage.get_document_sha1_by_name(document_name, fuzzy_match=True):
\* the sha1 of the first source file, in scan order, whose metainfo file_name
\* ("" when it has none) holds the name or is held by it; a file whose reading
\* raises is skipped.
RECURSIVE get_document_sha1_by_name(_, _)
get_document_sha1_by_name(files, document_name) ==
    IF files = <<>> THEN None
    ELSE LET file == Head(files)
             file_name == IF file.file_name.none THEN <<>> ELSE file.file_name.val
         IN  IF ~file.json THEN get_document_sha1_by_name(Tail(files), document_name)
             ELSE IF IsSubstring(document_name, file_name) \/ IsSubstring(file_name, document_name)
                  THEN file.sha1
                  ELSE get_document_sha1_by_name(Tail(files), document_name)

\* RAGPipeline.answer, step 2: the document_sha1 it hands to search
answer_document_sha1(product_name) ==
    IF Truthy(product_name) THEN get_document_sha1_by_name(chunked_reports, product_name.val)
    ELSE None

-----------------------------------------------------------------------------
(* EmbeddingService.  response is what the embedding provider answers:     *)
(* [kind |-> "ok", embedding |-> v], or a kind of failure.                 *)

embed_sync(texts, response) ==
    LET valid_texts == SelectSeq(texts, LAMBDA t : t # <<>> /\ ~IsBlank(t))
    IN  IF valid_texts = <<>> THEN Ok(<<>>)
        ELSE IF response.kind # "ok" THEN Raise("Exception")
        ELSE Ok([i \in DOMAIN valid_texts |-> response.embedding])

embed_query(query, response) ==
    LET embeddings == embed_sync(<<query>>, response)
    IN  IF embeddings.exc # "none" THEN embeddings
        ELSE IF embeddings.value = <<>> THEN Raise("Exception")
        ELSE Ok(embeddings.value[1])

-----------------------------------------------------------------------------
(* RetrievalService.                                                       *)

VECTOR_TOP_K == 50
BM25_TOP_N == 50
HYDRATE_TOP_N == 20
RERANK_TOP_K == 10

\* _init_bm25: <<bm25, bm25_chunk_ids>> for the chunks of the store
init_bm25_without_last(store) ==
    IF Len(store) <= 1 THEN <<None, <<>> >>
    ELSE <<Some([i \in 1..(Len(store) - 1) |-> store[i][2].text]),
           [i \in 1..(Len(store) - 1) |-> store[i][2].chunk_id]>>
init_bm25(store) ==
    IF store = <<>> THEN <<None, <<>> >>
    ELSE <<Some([i \in DOMAIN store |-> store[i][2].text]),
           [i \in DOMAIN store |-> store[i][2].chunk_id]>>

\* The BM25 step, for the scores bm25.get_scores gives the corpus entries:
\* the 50 best by score, of which those with a positive score are kept.
bm25_search(scores) ==
    IF bm25.none THEN <<>>
    ELSE LET top_n_indices == Take(SortedDescPerm(scores), BM25_TOP_N)
             kept == SelectSeq(top_n_indices, LAMBDA i : RGt(scores[i], RZero))
         IN  [r \in DOMAIN kept |-> <<bm25_chunk_ids[kept[r]], scores[kept[r]]>>]

\* [(cid, score) for cid, score in results if cid in filtered_chunk_ids],
\* applied if filtered_chunk_ids is not empty
filter_results(results, filtered_chunk_ids) ==
    IF filtered_chunk_ids # {}
    THEN SelectSeq(results, LAMBDA r : r[1] \in filtered_chunk_ids)
    ELSE results

\* The loop that fetches the chunks of the results.  get_chunk hands out the
\* cached dict itself, so detail['similarity'] = ... writes into the cache;
\* ids lists the chunks fetched, in order.
\* one turn of the loop: [ids, chunks] afterwards
hydrate_one_unchecked(store, result, vector_only, ids) ==
    With(get_chunk(store, result[1]), LAMBDA got :
        LET similarity == IF vector_only THEN combine_similarity(result[2]) ELSE result[2]
            found == IF got.detail.none
                     THEN [chunk_id |-> result[1], document_name |-> <<>>, text |-> <<>>]
                     ELSE got.detail.val
        IN  [ids |-> Append(ids, result[1]),
             chunks |-> DictSet(got.chunks, result[1], [similarity |-> similarity] @@ found)])
hydrate_one(store, result, vector_only, ids) ==
    With(get_chunk(store, result[1]), LAMBDA got :
        IF got.detail.none THEN [ids |-> ids, chunks |-> got.chunks]
        ELSE LET similarity == IF vector_only THEN combine_similarity(result[2]) ELSE result[2]
                 detail == [similarity |-> similarity] @@ got.detail.val
             IN  [ids |-> Append(ids, result[1]),
                  chunks |-> DictSet(got.chunks, result[1], detail)])

RECURSIVE hydrate(_, _, _, _)
hydrate(store, results, vector_only, ids) ==
    IF results = <<>> THEN [ids |-> ids, chunks |-> store]
    ELSE With(hydrate_one(store, Head(results), vector_only, ids), LAMBDA turn :
              hydrate(turn.chunks, Tail(results), vector_only, turn.ids))

\* chunk_details when the loop is over
chunk_details_of(hydrated) ==
    [i \in DOMAIN hydrated.ids |-> DictGet(hydrated.chunks, hydrated.ids[i], <<>>)]

\* RetrievalService.search up to its await, on the cache store: the ids the
\* product name selects (filtered_chunk_ids; none when no name is given or no
\* cached chunk matches)
search_begin(store, product_name) ==
    IF Truthy(product_name) THEN filter_by_document_name(store, product_name.val) ELSE {}

\* RetrievalService.search from the answer of the embedding call on, on the
\* cache store: what it returns or raises (ret), the cache afterwards
\* (chunks), the results whose chunks it fetched (candidates) and whether the
\* dicts it returns are the cache's own (shared) or copies the reranker made.  embed_response,
\* bm25_scores, rerank_response and tie are what the embedding provider,
\* bm25.get_scores, the rerank service and the vector library's tie order
\* give this call.
search_resume(store, filtered_chunk_ids, query, top_k, search_mode, document_sha1, embed_response, bm25_scores, rerank_response, tie) ==
    With(embed_query(query, embed_response), LAMBDA query_embedding :
    IF query_embedding.exc # "none"
    THEN [ret |-> Raise(query_embedding.exc), chunks |-> store, candidates |-> <<>>,
          shared |-> FALSE]
    ELSE
    With(IF Truthy(document_sha1)
         THEN faiss_search(query_embedding.value, VECTOR_TOP_K, document_sha1, tie)
         ELSE faiss_search(query_embedding.value, VECTOR_TOP_K, None, tie), LAMBDA found :
    With(filter_results(Pairs(found), filtered_chunk_ids), LAMBDA vector_results :
    IF search_mode = 1
    THEN With(hydrate(store, Take(vector_results, top_k), TRUE, <<>>), LAMBDA hydrated :
              [ret |-> Ok(chunk_details_of(hydrated)), chunks |-> hydrated.chunks,
               candidates |-> Take(vector_results, top_k), shared |-> TRUE])
    ELSE
    With(filter_results(bm25_search(bm25_scores), filtered_chunk_ids), LAMBDA bm25_results :
    With(combine_results(vector_results, bm25_results), LAMBDA combined_results :
    With(hydrate(store, Take(combined_results, HYDRATE_TOP_N), FALSE, <<>>), LAMBDA hydrated :
    With(chunk_details_of(hydrated), LAMBDA chunk_details :
    IF chunk_details # <<>>
    THEN With(rerank(chunk_details, RERANK_TOP_K, api_key, rerank_response),
              LAMBDA reranked_results :
              IF reranked_results.exc # "none"
              THEN [ret |-> reranked_results, chunks |-> hydrated.chunks,
                    candidates |-> Take(combined_results, HYDRATE_TOP_N), shared |-> FALSE]
              ELSE [ret |-> Ok(Take(reranked_results.value, top_k)),
                    chunks |-> hydrated.chunks,
                    candidates |-> Take(combined_results, HYDRATE_TOP_N),
                    shared |-> ~(api_key /\ rerank_try(chunk_details, rerank_response).exc = "none")])
    ELSE [ret |-> Ok(Take(chunk_details, top_k)), chunks |-> hydrated.chunks,
          candidates |-> Take(combined_results, HYDRATE_TOP_N), shared |-> TRUE])))))))

\* RetrievalService.search as one call
search(query, top_k, search_mode, product_name, document_sha1, embed_response, bm25_scores, rerank_response, tie) ==
    With(search_begin(chunks, product_name), LAMBDA filtered_chunk_ids :
         search_resume(chunks, filtered_chunk_ids, query, top_k, search_mode, document_sha1,
                       embed_response, bm25_scores, rerank_response, tie))

-----------------------------------------------------------------------------
(* Initial values of the parts of the state a specification leaves alone.  *)

NoIndex ==
    /\ index_dir = FALSE
    /\ index_files = <<>>
    /\ document_indices = <<>>
    /\ document_chunk_maps = <<>>
    /\ index = NoneIndex
    /\ chunk_ids = <<>>

NoStore ==
    /\ chunks = <<>>
    /\ chunked_reports = <<>>

NoLexicalIndex ==
    /\ bm25 = None
    /\ bm25_chunk_ids = <<>>

-----------------------------------------------------------------------------
(* Score fusion on its own: the inputs are drawn by the initial state and  *)
(* CombineResults applies _combine_results to them.                        *)

FusionIds == {MakeChunkId(ShaA, 0), MakeChunkId(ShaA, 1), MakeChunkId(ShaB, 0)}
\* raw scores of a cosine shard (inner products of unit vectors)
CosineScores == {Rat(-3, 5), RZero, Rat(4, 5), ROne}
\* raw scores of a Euclidean shard (squared distances)
L2Scores == {RZero, ROne, Rat(4, 3), RInt(3)}
\* raw BM25 scores that reach fusion (only scores > 0 do)
BM25Scores == {RInt(1), RInt(5), RInt(10)}

ResultLists(scores, n) ==
    {r \in UNION {[1..m -> FusionIds \X scores] : m \in 0..n} :
        \A i, j \in DOMAIN r : i # j => r[i][1] # r[j][1]}

InitFusion ==
    /\ NoIndex /\ NoStore /\ NoLexicalIndex
    /\ api_key = FALSE
    /\ \E metric \in {"cosine", "l2"} :
       \E vr \in ResultLists(IF metric = "cosine" THEN CosineScores ELSE L2Scores, MaxVec) :
       \E br \in ResultLists(BM25Scores, MaxLex) :
          call = [op |-> "combine_results", metric |-> metric, vector_results |-> vr,
                  bm25_results |-> br, done |-> FALSE, ret |-> <<>>]

CombineResults ==
    /\ call.op = "combine_results"
    /\ ~call.done
    /\ call' = [call EXCEPT !.done = TRUE,
                            !.ret = combine_results(call.vector_results, call.bm25_results)]
    /\ UNCHANGED <<faissVars, storeVars, lexVars, api_key>>

NextFusion == CombineResults

SpecFusion == InitFusion /\ [][NextFusion]_vars

Fused == call.op = "combine_results" /\ call.done
IdsOf(results) == {results[i][1] : i \in DOMAIN results}
ScoreIn(results, cid) == results[CHOOSE i \in DOMAIN results : results[i][1] = cid][2]

\* C7: fusion returns exactly one entry per chunk id of the union of the two
\* lists, and the entry's score is 0.7 x the id's vector similarity (zero when
\* the id is not in the vector list) plus 0.3 x the id's raw lexical score / 10
\* (zero when the id is not in the lexical list).  The vector similarity is the
\* value the conversion step gives the raw vector score.
FusionWeightedSum ==
    Fused =>
        LET vr == call.vector_results
            br == call.bm25_results
            ret == call.ret
            vpart(cid) == IF cid \in IdsOf(vr)
                          THEN RMul(VECTOR_WEIGHT, combine_similarity(ScoreIn(vr, cid)))
                          ELSE RZero
            lpart(cid) == IF cid \in IdsOf(br)
                          THEN RMul(BM25_WEIGHT, RDiv(ScoreIn(br, cid), RInt(10)))
                          ELSE RZero
        IN  /\ IdsOf(ret) = IdsOf(vr) \cup IdsOf(br)
            /\ Len(ret) = Cardinality(IdsOf(vr) \cup IdsOf(br))
            /\ \A i \in DOMAIN ret : ret[i][2] = RAdd(vpart(ret[i][1]), lpart(ret[i][1]))

\* C7's case: a chunk id in both lists, one only in the vector list and one
\* only in the lexical list have been fused.
FusionWeightedSumWitness ==
    /\ Fused
    /\ IdsOf(call.vector_results) \cap IdsOf(call.bm25_results) # {}
    /\ IdsOf(call.vector_results) \ IdsOf(call.bm25_results) # {}
    /\ IdsOf(call.bm25_results) \ IdsOf(call.vector_results) # {}

\* C8: with an empty lexical list, a candidate of a cosine shard with
\* similarity s gets fused score exactly 0.7 x s (the similarity passes
\* through unchanged).
CosineSimilarityPassesThrough ==
    (Fused /\ call.metric = "cosine" /\ call.bm25_results = <<>>) =>
        \A i \in DOMAIN call.vector_results :
            ScoreIn(call.ret, call.vector_results[i][1])
                = RMul(VECTOR_WEIGHT, call.vector_results[i][2])

\* C9: every raw distance d >= 0 of a Euclidean shard, d = 0 included, is
\* converted to the similarity 1/(1+d): with an empty lexical list the fused
\* score of the candidate is 0.7 x 1/(1+d).
DistanceBecomesSimilarity ==
    (Fused /\ call.metric = "l2" /\ call.bm25_results = <<>>) =>
        \A i \in DOMAIN call.vector_results :
            ScoreIn(call.ret, call.vector_results[i][1])
                = RMul(VECTOR_WEIGHT, RDiv(ROne, RAdd(ROne, call.vector_results[i][2])))

\* first-seen order: the vector list's ids in list order, then the ids only
\* in the lexical list in list order
FirstSeen(cid) ==
    LET vr == call.vector_results
        br == call.bm25_results
    IN  IF cid \in IdsOf(vr)
        THEN CHOOSE i \in DOMAIN vr : vr[i][1] = cid
        ELSE Len(vr) + (CHOOSE i \in DOMAIN br : br[i][1] = cid)

\* C10: the fused list is sorted by fused score, descending, and two chunk ids
\* with equal fused score keep their first-seen order.
FusedOrderStable ==
    Fused =>
        \A i, j \in DOMAIN call.ret :
            i < j =>
                /\ RLe(call.ret[j][2], call.ret[i][2])
                /\ call.ret[i][2] = call.ret[j][2]
                       => FirstSeen(call.ret[i][1]) < FirstSeen(call.ret[j][1])

\* C10's case: a vector entry and a lexical-only entry tie, below a better one.
FusedOrderStableWitness ==
    /\ Fused
    /\ Len(call.ret) = 3
    /\ call.ret[2][2] = call.ret[3][2]
    /\ RLt(call.ret[2][2], call.ret[1][2])
    /\ call.ret[2][1] \in IdsOf(call.vector_results)
    /\ call.ret[3][1] \notin IdsOf(call.vector_results)

-----------------------------------------------------------------------------
(* The reranker on its own: the candidates, top_k and the external         *)
(* service's answer are drawn by the initial state; Rerank applies rerank. *)

RerankSimilarities == {Rat(9, 10), Rat(2, 5), Rat(7, 10)}
RerankIds == <<MakeChunkId(ShaA, 0), MakeChunkId(ShaA, 1), MakeChunkId(ShaB, 0),
               MakeChunkId(ShaB, 1), MakeChunkId(ShaA, 2)>>

\* candidate lists: the i-th candidate is chunk RerankIds[i]
CandidateLists(n) ==
    {[i \in 1..m |-> [chunk_id |-> RerankIds[i], text |-> <<"t">>, similarity |-> sims[i]]] :
        m \in 0..n, sims \in [1..n -> RerankSimilarities]}

RerankItems ==
    {[type |-> "dict", index |-> <<"int", 0>>, relevance_score |-> <<"num", Rat(1, 5)>>],
     [type |-> "dict", index |-> <<"int", 1>>, relevance_score |-> <<"num", Rat(19, 20)>>],
     [type |-> "dict", index |-> <<"int", -1>>, relevance_score |-> <<"num", Rat(1, 2)>>],
     [type |-> "dict", index |-> <<"int", 7>>, relevance_score |-> <<"num", Rat(1, 2)>>],
     [type |-> "dict", index |-> <<"missing">>, relevance_score |-> <<"missing">>],
     [type |-> "dict", index |-> <<"str">>, relevance_score |-> <<"num", Rat(1, 2)>>],
     [type |-> "other", index |-> <<"missing">>, relevance_score |-> <<"missing">>]}

RerankResponses ==
    {[kind |-> "RequestException"], [kind |-> "InvalidJson"],
     [kind |-> "Json", json |-> [has_results |-> FALSE, iterable |-> FALSE, results |-> <<>>]],
     [kind |-> "Json", json |-> [has_results |-> TRUE, iterable |-> FALSE, results |-> <<>>]]}
    \cup {[kind |-> "Json", json |-> [has_results |-> TRUE, iterable |-> TRUE, results |-> items]] :
            items \in UNION {[1..m -> RerankItems] : m \in 0..MaxItems}}

InitRerank ==
    /\ NoIndex /\ NoStore /\ NoLexicalIndex
    /\ api_key \in BOOLEAN
    /\ \E docs \in CandidateLists(MaxDocs) :
       \E k \in 1..MaxTopK :
       \E response \in (IF api_key THEN RerankResponses ELSE {[kind |-> "RequestException"]}) :
          call = [op |-> "rerank", documents |-> docs, top_k |-> k, response |-> response,
                  done |-> FALSE, ret |-> <<>>]

Rerank ==
    /\ call.op = "rerank"
    /\ ~call.done
    /\ call' = [call EXCEPT !.done = TRUE,
                            !.ret = rerank(call.documents, call.top_k, api_key, call.response)]
    /\ UNCHANGED <<faissVars, storeVars, lexVars, api_key>>

NextRerank == Rerank

SpecRerank == InitRerank /\ [][NextRerank]_vars

Reranked == call.op = "rerank" /\ call.done

\* the external service failed: no credentials, the request failed, or the
\* body is malformed (no JSON, or JSON without a results list)
RerankServiceFailed ==
    \/ ~api_key
    \/ call.response.kind \in {"RequestException", "InvalidJson"}
    \/ call.response.kind = "Json"
         /\ (~call.response.json.has_results \/ ~call.response.json.iterable)

\* v is docs sorted by similarity, descending and stable, cut to k
IsSimilaritySortedTopK(docs, k, v) ==
    /\ Len(v) = Min(k, Len(docs))
    /\ \E f \in [DOMAIN v -> DOMAIN docs] :
        /\ \A i \in DOMAIN v : v[i] = docs[f[i]]
        /\ \A i, j \in DOMAIN v :
              i < j => \/ RGt(docs[f[i]].similarity, docs[f[j]].similarity)
                       \/ (docs[f[i]].similarity = docs[f[j]].similarity /\ f[i] < f[j])
        /\ \A p \in DOMAIN docs \ {f[i] : i \in DOMAIN v} :
              \A i \in DOMAIN v :
                  \/ RGt(docs[f[i]].similarity, docs[p].similarity)
                  \/ (docs[f[i]].similarity = docs[p].similarity /\ f[i] < p)

\* C1: on every failure of the external service rerank returns the input
\* candidates sorted by their similarity, descending, truncated to k.
RerankFailureFallsBack ==
    (Reranked /\ RerankServiceFailed) =>
        /\ call.ret.exc = "none"
        /\ IsSimilaritySortedTopK(call.documents, call.top_k, call.ret.value)

-----------------------------------------------------------------------------
(* The shard index on its own: FAISSIndex is constructed over a directory  *)
(* of shard files (or, with no index_dir, over a global index file), then  *)
(* searched; build_index may give it a global index.                       *)

Idle == [op |-> "idle"]

EmbeddingsA == {<< <<1, 0>>, <<0, 1>>, <<3, 4>> >>, << <<3, 4>>, <<0, 0>>, <<3, 4>> >>}
EmbeddingsB == {<< <<-1, 0>>, <<4, 3>> >>}
GlobalEmbeddings == << <<1, 0>>, <<4, 3>> >>
GlobalChunkIds == <<MakeChunkId(ShaA, 0), MakeChunkId(ShaB, 1)>>
Queries == {<<1, 0>>, <<3, 4>>, <<0, 0>>}
ScopeKeys == {None, Some(ShaA), Some(ShaB), Some(ShaC)}

IdsFor(sha1, n) == [i \in 1..n |-> MakeChunkId(sha1, i - 1)]

\* The ways the files of one document can lie in the directory: an unreadable
\* .faiss file, or an index of either metric with its .faiss.ids file missing,
\* unreadable, or holding as many ids as vectors or a number that differs from
\* it by one of extras.
ShardFiles(sha1, embeddings, extras) ==
    {[sha1 |-> sha1, readable |-> FALSE, index |-> NoneIndex, ids |-> "missing",
      chunk_ids |-> <<>>]}
    \cup {[sha1 |-> sha1, readable |-> TRUE, index |-> create_index(e, c), ids |-> "missing",
           chunk_ids |-> <<>>] : e \in embeddings, c \in BOOLEAN}
    \cup {[sha1 |-> sha1, readable |-> TRUE, index |-> create_index(e, c), ids |-> "corrupt",
           chunk_ids |-> <<>>] : e \in embeddings, c \in BOOLEAN}
    \cup {[sha1 |-> sha1, readable |-> TRUE, index |-> create_index(e, c), ids |-> "ok",
           chunk_ids |-> IdsFor(sha1, Len(e) + extra)] :
              e \in embeddings, c \in BOOLEAN, extra \in extras}

FilesA == ShardFiles(ShaA, EmbeddingsA, {-1, 0, 1})
FilesB == ShardFiles(ShaB, EmbeddingsB, {0, 1})

IndexDirectories ==
    {<<>>}
    \cup {<<a>> : a \in FilesA}
    \cup {<<b>> : b \in FilesB}
    \cup {<<a, b>> : a \in FilesA, b \in FilesB}
    \cup {<<b, a>> : a \in FilesA, b \in FilesB}

\* FAISSIndex.__init__
InitFAISSIndex ==
    \/ /\ index_dir = TRUE
       /\ index_files \in IndexDirectories
       /\ document_indices = load_document_indices(<< <<>>, <<>> >>, index_files)[1]
       /\ document_chunk_maps = load_document_indices(<< <<>>, <<>> >>, index_files)[2]
       /\ index = NoneIndex
       /\ chunk_ids = <<>>
    \/ /\ index_dir = FALSE
       /\ index_files = <<>>
       /\ document_indices = <<>>
       /\ document_chunk_maps = <<>>
       /\ \/ index = NoneIndex /\ chunk_ids = <<>>
          \/ index = build_index(GlobalEmbeddings) /\ chunk_ids = GlobalChunkIds

InitIndex ==
    /\ InitFAISSIndex
    /\ NoStore /\ NoLexicalIndex
    /\ api_key = FALSE
    /\ call = Idle

\* FAISSIndex.search(query_embedding, top_k, document_sha1)
FaissSearch ==
    /\ call.op = "idle"
    /\ \E q \in Queries, k \in 1..MaxTopK, scope \in ScopeKeys, tie \in {"low", "high"} :
          LET hits == faiss_search(q, k, scope, tie)
          IN  call' = [op |-> "faiss_search", query_embedding |-> q, top_k |-> k,
                       document_sha1 |-> scope, hits |-> hits, ret |-> Pairs(hits)]
    /\ UNCHANGED <<faissVars, storeVars, lexVars, api_key>>

\* FAISSIndex.build_index(embeddings, chunk_ids), as ingest_directory calls it
BuildIndex ==
    /\ call.op = "idle"
    /\ index' = build_index(GlobalEmbeddings)
    /\ chunk_ids' = GlobalChunkIds
    /\ call' = [op |-> "build_index"]
    /\ UNCHANGED <<index_dir, index_files, document_indices, document_chunk_maps,
                   storeVars, lexVars, api_key>>

\* the call returns; the next one can be made
Return ==
    /\ call.op # "idle"
    /\ call' = Idle
    /\ UNCHANGED <<faissVars, storeVars, lexVars, api_key>>

NextIndex == FaissSearch \/ BuildIndex \/ Return

SpecIndex == InitIndex /\ [][NextIndex]_vars

Searched == call.op = "faiss_search"
RegistryKeys == DictKeys(document_indices)
ShardIndex(sha1) == DictGet(document_indices, sha1, NoneIndex)
ShardIds(sha1) == DictGet(document_chunk_maps, sha1, <<>>)

\* C3: a search scoped to a key S of the registry returns only chunk ids of
\* S's own id list, and none of another shard's (disjoint) id list.
ScopedSearchStaysInShard ==
    (Searched /\ ~call.document_sha1.none /\ call.document_sha1.val \in RegistryKeys) =>
        LET S == call.document_sha1.val IN
        /\ \A i \in DOMAIN call.ret : call.ret[i][1] \in Range(ShardIds(S))
        /\ \A T \in RegistryKeys \ {S} :
              Range(ShardIds(T)) \cap Range(ShardIds(S)) = {}
                  => \A i \in DOMAIN call.ret : call.ret[i][1] \notin Range(ShardIds(T))

\* C3's case: shard A (3 vectors) and shard B (2 vectors) are both in the
\* registry with their ids, and a search scoped to A has returned 3 hits.
ScopedSearchStaysInShardWitness ==
    /\ Searched
    /\ call.document_sha1 = Some(ShaA)
    /\ Len(ShardIds(ShaA)) = 3
    /\ Len(ShardIds(ShaB)) = 2
    /\ Len(call.ret) = 3

\* C4: a search with a scope key that is given and is not in the registry
\* returns the empty result.
AbsentScopeReturnsEmpty ==
    (Searched /\ Truthy(call.document_sha1) /\ call.document_sha1.val \notin RegistryKeys) =>
        call.ret = <<>>

RECURSIVE VectorCount(_)
VectorCount(shards) ==
    IF shards = {} THEN 0
    ELSE LET s == CHOOSE s \in shards : TRUE
         IN  Len(ShardIndex(s).vectors) + VectorCount(shards \ {s})

SameMetric == \A s, t \in RegistryKeys : ShardIndex(s).type = ShardIndex(t).type

Better(type, x, y) == IF type = "IndexFlatIP" THEN RGt(x, y) ELSE RLt(x, y)

\* hits are exactly k candidates of the given shards, each with its own id and
\* score, in the metric's order, and no candidate left out scores better than
\* one returned
IsGlobalTopK(hits, q, k, shards) ==
    /\ Len(hits) = k
    /\ \A i \in DOMAIN hits :
          /\ hits[i].sha1 \in shards
          /\ hits[i].pos + 1 \in DOMAIN ShardIndex(hits[i].sha1).vectors
          /\ hits[i].pos + 1 \in DOMAIN ShardIds(hits[i].sha1)
          /\ hits[i].chunk_id = ShardIds(hits[i].sha1)[hits[i].pos + 1]
          /\ hits[i].score = IndexScore(ShardIndex(hits[i].sha1),
                                        scoped_query(ShardIndex(hits[i].sha1), q),
                                        hits[i].pos + 1)
    /\ \A i, j \in DOMAIN hits :
          i < j => /\ <<hits[i].sha1, hits[i].pos>> # <<hits[j].sha1, hits[j].pos>>
                   /\ ~Better(ShardIndex(hits[i].sha1).type, hits[j].score, hits[i].score)
    /\ \A s \in shards : \A p \in DOMAIN ShardIndex(s).vectors :
          (\A i \in DOMAIN hits : <<hits[i].sha1, hits[i].pos>> # <<s, p - 1>>)
              => \A i \in DOMAIN hits :
                    ~Better(ShardIndex(s).type,
                            IndexScore(ShardIndex(s), scoped_query(ShardIndex(s), q), p),
                            hits[i].score)

\* the shards scatter-gather reads: those with a (non-empty) id list
LiveShards == {s \in RegistryKeys : ShardIds(s) # <<>>}

\* the registry is one of well-formed shards of a single metric that hold at
\* least k vectors: every shard has the same metric, and every shard that has
\* an id list (a degraded shard has none and counts for nothing) has at least
\* as many ids as vectors
RegistryHolds(k) ==
    /\ RegistryKeys # {}
    /\ SameMetric
    /\ \A s \in LiveShards : Len(ShardIds(s)) >= Len(ShardIndex(s).vectors)
    /\ VectorCount(LiveShards) >= k

\* C5 as claimed: an unscoped search over a registry whose loaded shards
\* together hold at least k vectors returns exactly the k globally best
\* candidates in the metric's order; over an empty registry it returns the
\* empty result.
UnscopedReturnsGlobalTopK ==
    (Searched /\ call.document_sha1.none) =>
        /\ RegistryHolds(call.top_k)
              => /\ IsGlobalTopK(call.hits, call.query_embedding, call.top_k, LiveShards)
                 /\ call.ret = Pairs(call.hits)
        /\ RegistryKeys = {} => call.ret = <<>>

\* C5 as amended: the same when, for cosine shards, the query is not the zero
\* vector; over an empty registry the result is empty when the instance holds
\* no global index.
UnscopedReturnsTopKOfLiveShards ==
    (Searched /\ call.document_sha1.none) =>
        /\ ( /\ RegistryHolds(call.top_k)
             /\ (\E s \in RegistryKeys : ShardIndex(s).type = "IndexFlatIP")
                    => Norm(call.query_embedding) > 0 )
              => /\ IsGlobalTopK(call.hits, call.query_embedding, call.top_k, LiveShards)
                 /\ call.ret = Pairs(call.hits)
        /\ (RegistryKeys = {} /\ index.type = "None") => call.ret = <<>>

\* C5's case: an unscoped search with k = 3 over two Euclidean shards A (3
\* vectors) and B (2 vectors) has returned hits of both shards.
UnscopedTopKWitness ==
    /\ Searched
    /\ call.document_sha1.none
    /\ call.top_k = 3
    /\ LiveShards = {ShaA, ShaB}
    /\ SameMetric
    /\ ShardIndex(ShaA).type = "IndexFlatL2"
    /\ Len(call.ret) = 3
    /\ {call.hits[i].sha1 : i \in DOMAIN call.hits} = {ShaA, ShaB}

\* the shards loaded without an id list
DegradedShards == RegistryKeys \ DictKeys(document_chunk_maps)
RawPositions == {IntToStr(p) : p \in 0..9}

\* C6: a shard loaded without its id-mapping file gives a scoped search no
\* result, gives an unscoped search no entry, and no raw vector position is
\* returned as a chunk id.
DegradedShardContributesNothing ==
    Searched =>
        /\ (Truthy(call.document_sha1) /\ call.document_sha1.val \in DegradedShards)
              => call.ret = <<>>
        /\ \A i \in DOMAIN call.hits : call.hits[i].sha1 \notin DegradedShards
        /\ \A i \in DOMAIN call.ret : call.ret[i][1] \notin RawPositions

\* C6's case: a search scoped to a degraded shard whose vector data is loaded
\* (the other shard being intact) has returned.
DegradedShardWitness ==
    /\ Searched
    /\ call.document_sha1 = Some(ShaA)
    /\ ShaA \in DegradedShards
    /\ Len(ShardIndex(ShaA).vectors) = 3
    /\ ShaB \in LiveShards
    /\ call.ret = <<>>

-----------------------------------------------------------------------------
(* Retrieval: RetrievalService is constructed over an index directory, the *)
(* stored chunks and the chunk-source files, then searched.                *)

SearchEmbeddingsA == << <<1, 0>>, <<0, 1>>, <<3, 4>> >>
SearchEmbeddingsB == << <<-1, 0>>, <<4, 3>> >>

\* chunk ids that are no "{sha1}_{index}": a chunk's own chunk_id field
UuidChunkId == <<"u">>
OddChunkIds == <<ShaB \o <<"_", "x">>, <<"n", "o">> >>

SearchFileA ==
    [sha1 |-> ShaA, readable |-> TRUE, index |-> create_index(SearchEmbeddingsA, TRUE),
     ids |-> "ok", chunk_ids |-> IdsFor(ShaA, 3)]
SearchFilesB ==
    {[sha1 |-> ShaB, readable |-> TRUE, index |-> create_index(SearchEmbeddingsB, TRUE),
      ids |-> "ok", chunk_ids |-> IdsFor(ShaB, 2)],
     [sha1 |-> ShaB, readable |-> TRUE, index |-> create_index(SearchEmbeddingsB, TRUE),
      ids |-> "missing", chunk_ids |-> <<>>],
     [sha1 |-> ShaB, readable |-> TRUE, index |-> create_index(SearchEmbeddingsB, TRUE),
      ids |-> "ok", chunk_ids |-> OddChunkIds]}
SearchDirectories == {<<>>} \cup {<<SearchFileA, b>> : b \in SearchFilesB}

Text(t) == [text |-> [type |-> "str", val |-> t]]
SourceA ==
    [json |-> TRUE, stem |-> <<"A">>, sha1 |-> Some(ShaA),
     file_name |-> Some(<<"A", ".", "m", "d">>),
     chunks |-> <<Text(<<"t">>), Text(<<" ">>), Text(<<"t", "t">>)>>]
SourceB ==
    [json |-> TRUE, stem |-> <<"B">>, sha1 |-> Some(ShaB), file_name |-> None,
     chunks |-> <<Text(<<"t">>), [text |-> [type |-> "other"]]>>]
MalformedSource ==
    [json |-> FALSE, stem |-> <<"M">>, sha1 |-> None, file_name |-> None, chunks |-> <<>>]
ChunkSources ==
    {<<>>, <<SourceA>>, <<SourceA, SourceB>>, <<MalformedSource, SourceB, SourceA>>}

StoredChunk(chunk_id, document_name) ==
    <<chunk_id, [chunk_id |-> chunk_id, document_name |-> document_name, text |-> <<"t">>]>>
\* what chunks.json holds
StoredChunks ==
    {<<>>,
     <<StoredChunk(MakeChunkId(ShaA, 0), <<"A">>), StoredChunk(UuidChunkId, <<"A">>),
       StoredChunk(MakeChunkId(ShaB, 0), <<"B">>)>>}

SearchQueries == {<<"q">>, <<" ">>}
EmbedResponses ==
    {[kind |-> "ok", embedding |-> <<3, 4>>], [kind |-> "error"]}
ProductNames == {None, Some(<<"A">>), Some(<<"Z">>)}
SearchScopes == {None, Some(ShaA), Some(ShaB), Some(ShaC)}
SearchTopKs == {1, MaxTopK}
SearchModes == {1, 2}
\* what bm25.get_scores may give a corpus of n entries
BM25ScoreVectors(n) ==
    {[i \in 1..n |-> RInt(i)], [i \in 1..n |-> IF i = 1 THEN RInt(5) ELSE RZero]}
SearchRerankResponses ==
    {[kind |-> "RequestException"],
     [kind |-> "Json", json |-> [has_results |-> FALSE, iterable |-> FALSE, results |-> <<>>]],
     [kind |-> "Json", json |-> [has_results |-> TRUE, iterable |-> TRUE, results |->
        <<[type |-> "dict", index |-> <<"int", 1>>, relevance_score |-> <<"num", Rat(19, 20)>>],
          [type |-> "dict", index |-> <<"int", 0>>, relevance_score |-> <<"num", Rat(1, 5)>>]>>]]}

\* RetrievalService.__init__
InitRetrievalService ==
    /\ index_dir = TRUE
    /\ index_files \in SearchDirectories
    /\ document_indices = load_document_indices(<< <<>>, <<>> >>, index_files)[1]
    /\ document_chunk_maps = load_document_indices(<< <<>>, <<>> >>, index_files)[2]
    /\ index = NoneIndex
    /\ chunk_ids = <<>>
    /\ chunks \in StoredChunks
    /\ chunked_reports \in ChunkSources
    /\ bm25 = init_bm25(chunks)[1]
    /\ bm25_chunk_ids = init_bm25(chunks)[2]

InitSearch ==
    /\ InitRetrievalService
    /\ api_key \in BOOLEAN
    /\ call = Idle

\* RetrievalService.search(query, top_k, search_mode, product_name, document_sha1).
\* The service is followed until a search has written to the chunk cache: the
\* searches made are those over the cache as it was loaded.
Search ==
    /\ call.op = "idle"
    /\ chunks \in StoredChunks
    /\ \E query \in SearchQueries, top_k \in SearchTopKs, search_mode \in SearchModes,
          product_name \in ProductNames, document_sha1 \in SearchScopes :
       \E embed_response \in (IF IsBlank(query) THEN {[kind |-> "error"]} ELSE EmbedResponses) :
       \E bm25_scores \in (IF search_mode = 1 \/ bm25.none THEN {<<>>}
                           ELSE BM25ScoreVectors(Len(bm25_chunk_ids))) :
       \E rerank_response \in (IF search_mode = 1 \/ ~api_key THEN {[kind |-> "RequestException"]}
                               ELSE SearchRerankResponses) :
          LET r == search(query, top_k, search_mode, product_name, document_sha1,
                          embed_response, bm25_scores, rerank_response, "low")
          IN  /\ chunks' = r.chunks
              /\ call' = [op |-> "search", query |-> query, top_k |-> top_k,
                          search_mode |-> search_mode, product_name |-> product_name,
                          document_sha1 |-> document_sha1, embed_response |-> embed_response,
                          bm25_scores |-> bm25_scores, rerank_response |-> rerank_response,
                          ret |-> r.ret, candidates |-> r.candidates, before |-> chunks]
    /\ UNCHANGED <<faissVars, chunked_reports, lexVars, api_key>>

NextSearch == Search \/ BuildIndex \/ Return

SpecSearch == InitSearch /\ [][NextSearch]_vars

SearchReturned == call.op = "search"

\* the query embedding call fails: the provider fails, or the query is blank
\* and no embedding comes back
EmbeddingFailed == IsBlank(call.query) \/ call.embed_response.kind # "ok"

\* C2: search ends in an exception if and only if the query embedding call
\* fails; a rerank failure, a missing scope, a degraded shard, an unresolvable
\* chunk id and a malformed chunk-source file all leave it returning a list.
SearchFailsOnlyOnEmbeddingFailure ==
    SearchReturned => ((call.ret.exc # "none") <=> EmbeddingFailed)

\* C2's case: a hybrid search whose embedding succeeded has returned two
\* chunks although the rerank request failed, one shard of the registry is
\* degraded, a chunk-source file is malformed and the chunk a_1 of the vector
\* results cannot be resolved.
SearchDegradesWitness ==
    /\ SearchReturned
    /\ call.search_mode = 2
    /\ ~EmbeddingFailed
    /\ call.document_sha1.none
    /\ api_key
    /\ call.rerank_response.kind = "RequestException"
    /\ DegradedShards # {}
    /\ \E i \in DOMAIN chunked_reports : ~chunked_reports[i].json
    /\ call.ret.exc = "none"
    /\ {call.ret.value[i].chunk_id : i \in DOMAIN call.ret.value}
          = {MakeChunkId(ShaA, 0), MakeChunkId(ShaA, 2)}

-----------------------------------------------------------------------------
(* The reranker when the external call succeeds (under SpecRerank).        *)

\* the external call succeeded: the service answered with a results list whose
\* items each name a candidate by its index and carry a relevance score
RerankServiceSucceeded ==
    /\ api_key
    /\ call.documents # <<>>
    /\ call.response.kind = "Json"
    /\ call.response.json.has_results
    /\ call.response.json.iterable
    /\ \A i \in DOMAIN call.response.json.results :
          LET item == call.response.json.results[i] IN
          /\ item.type = "dict"
          /\ item.index[1] = "int"
          /\ item.index[2] \in 0..(Len(call.documents) - 1)
          /\ item.relevance_score[1] = "num"

\* C11: when the external rerank call succeeds, rerank returns at most k
\* entries, each an input candidate with its score replaced by the relevance
\* score the service gave for it, in descending order of that score.
RerankSuccessReordersAndTruncates ==
    (Reranked /\ RerankServiceSucceeded) =>
        /\ call.ret.exc = "none"
        /\ Len(call.ret.value) <= call.top_k
        /\ \A i \in DOMAIN call.ret.value :
              \E j \in DOMAIN call.response.json.results :
                 LET item == call.response.json.results[j] IN
                 call.ret.value[i] = rerank_scored(call.documents[item.index[2] + 1],
                                                   item.relevance_score[2])
        /\ \A i, j \in DOMAIN call.ret.value :
              i < j => RLe(call.ret.value[j].similarity, call.ret.value[i].similarity)

-----------------------------------------------------------------------------
(* The chunk store on its own: MetadataStorage is constructed over the     *)
(* stored chunks and a directory of chunk-source files, then asked for     *)
(* chunks.                                                                 *)

ShaU == <<"c", "_", "1">>

\* a second source file of document a, chunked otherwise
SourceA2 ==
    [json |-> TRUE, stem |-> <<"A", "2">>, sha1 |-> Some(ShaA),
     file_name |-> Some(<<"A", "2", ".", "m", "d">>),
     chunks |-> <<Text(<<"x">>), Text(<<>>)>>]
\* a source file with the hash of SourceA whose only entry has a text that is no string
SourceA3 ==
    [json |-> TRUE, stem |-> <<"A", "3">>, sha1 |-> Some(ShaA), file_name |-> None,
     chunks |-> <<[text |-> [type |-> "other"]]>>]
\* a source file whose content hash holds a '_'
SourceU ==
    [json |-> TRUE, stem |-> <<"U">>, sha1 |-> Some(ShaU), file_name |-> Some(<<>>),
     chunks |-> <<Text(<<"t">>)>>]

\* chunked_reports_dir, in the order glob yields the files
StoreDirectories ==
    {<<>>, <<SourceA>>, <<SourceA, SourceB>>, <<MalformedSource, SourceA>>,
     <<SourceA, MalformedSource>>, <<SourceA2, SourceA>>, <<SourceA, SourceA2>>,
     <<MalformedSource, SourceB, SourceA>>, <<SourceU, MalformedSource>>,
     <<SourceA3, MalformedSource, SourceA>>}

StoreIds ==
    {MakeChunkId(ShaA, 0), MakeChunkId(ShaA, 1), MakeChunkId(ShaA, 2), MakeChunkId(ShaA, 3),
     MakeChunkId(ShaB, 0), MakeChunkId(ShaB, 1), MakeChunkId(ShaU, 0), MakeChunkId(ShaC, 0),
     UuidChunkId, ShaB \o <<"_", "x">>, ShaA \o <<"_", "-", "1">>, ShaA \o <<"_">>}

\* the directory scan is reached: the id is not cached, holds a '_' and its
\* last part is an integer
get_chunk_scans(store, chunk_id) ==
    /\ ~DictHas(store, chunk_id)
    /\ "_" \in Range(chunk_id)
    /\ parse_int(rsplit(chunk_id)[2]).exc = "none"

\* MetadataStorage.__init__
InitMetadataStorage ==
    /\ chunks \in StoredChunks
    /\ chunked_reports \in StoreDirectories

InitStore ==
    /\ NoIndex /\ NoLexicalIndex
    /\ InitMetadataStorage
    /\ api_key = FALSE
    /\ call = Idle

\* MetadataStorage.get_chunk(chunk_id); before is the cache as the call found it
GetChunk ==
    \E chunk_id \in StoreIds :
       LET got == get_chunk(chunks, chunk_id)
       IN  /\ chunks' = got.chunks
           /\ call' = [op |-> "get_chunk", chunk_id |-> chunk_id, detail |-> got.detail,
                       exc |-> got.exc, scanned |-> get_chunk_scans(chunks, chunk_id),
                       before |-> chunks]
           /\ UNCHANGED <<faissVars, chunked_reports, lexVars, api_key>>

NextStore == GetChunk

SpecStore == InitStore /\ [][NextStore]_vars

GotChunk == call.op = "get_chunk"

\* the source files that can be read and carry content hash sha1, by position
FilesOf(sha1) ==
    {f \in DOMAIN chunked_reports :
        chunked_reports[f].json /\ chunked_reports[f].sha1 = Some(sha1)}
SourceHashes ==
    {chunked_reports[f].sha1.val :
        f \in {g \in DOMAIN chunked_reports :
                 chunked_reports[g].json /\ ~chunked_reports[g].sha1.none}}

\* entry i (from 0) of file f has a text that is a string and not blank
HasText(f, i) ==
    /\ i < Len(chunked_reports[f].chunks)
    /\ chunked_reports[f].chunks[i + 1].text.type = "str"
    /\ ~IsBlank(chunked_reports[f].chunks[i + 1].text.val)

\* get returned a chunk with this id and the text of entry i of file f
ReturnedEntry(f, i) ==
    /\ ~call.detail.none
    /\ call.detail.val.chunk_id = call.chunk_id
    /\ chunked_reports[f].chunks[i + 1].text.type = "str"
    /\ call.detail.val.text = chunked_reports[f].chunks[i + 1].text.val

\* C12 as claimed: on an empty store, for every source file with content hash
\* H and every ordinal i of its chunks array, get("H_i") returns a chunk with
\* id "H_i" and the entry's text.
GetReconstructsEveryEntry ==
    (GotChunk /\ call.before = <<>>) =>
        \A H \in SourceHashes : \A f \in FilesOf(H) :
            \A i \in 0..(Len(chunked_reports[f].chunks) - 1) :
                call.chunk_id = MakeChunkId(H, i) => ReturnedEntry(f, i)

\* C12 as amended: the same for an entry whose text is a string that is not
\* blank, of the first file in scan order that has such an entry at i among
\* the files with content hash H.
GetReconstructsEveryTextEntry ==
    (GotChunk /\ call.before = <<>>) =>
        \A H \in SourceHashes : \A f \in FilesOf(H) :
            \A i \in 0..(Len(chunked_reports[f].chunks) - 1) :
                ( /\ call.chunk_id = MakeChunkId(H, i)
                  /\ HasText(f, i)
                  /\ \A g \in FilesOf(H) : g < f => ~HasText(g, i) )
                    => ReturnedEntry(f, i)

\* C12's case: on an empty store get("a_2") has returned the text of entry 2
\* of document a's source file, which is not the first file of the directory.
GetReconstructsWitness ==
    /\ GotChunk
    /\ call.before = <<>>
    /\ call.chunk_id = MakeChunkId(ShaA, 2)
    /\ Len(chunked_reports) > 1
    /\ chunked_reports[1] # SourceA
    /\ ~call.detail.none
    /\ call.detail.val.text = <<"t", "t">>

\* C13: a get that reconstructs a chunk leaves it in the in-memory map when it
\* returns; a get of a cached id returns the cached value without scanning the
\* directory and leaves the map alone; so the get that follows a reconstructing
\* get of the same id returns the identical value with no second scan, and no
\* entry of the map is ever dropped or changed by get.
GetIsIdempotent ==
    [][ call'.op = "get_chunk" =>
          /\ (call'.scanned /\ ~call'.detail.none)
                => /\ DictHas(chunks', call'.chunk_id)
                   /\ DictGet(chunks', call'.chunk_id, <<>>) = call'.detail.val
          /\ DictHas(chunks, call'.chunk_id)
                => /\ ~call'.scanned
                   /\ call'.detail = Some(DictGet(chunks, call'.chunk_id, <<>>))
                   /\ chunks' = chunks
          /\ (GotChunk /\ call.chunk_id = call'.chunk_id /\ call.scanned /\ ~call.detail.none)
                => (call'.detail = call.detail /\ ~call'.scanned)
          /\ \A k \in DictKeys(chunks) :
                DictHas(chunks', k) /\ DictGet(chunks', k, <<>>) = DictGet(chunks, k, <<>>)
      ]_vars

\* C13's case: a get of a_2, which an earlier get reconstructed from a source
\* file, has returned the cached chunk without a scan.
GetIsIdempotentWitness ==
    /\ GotChunk
    /\ call.chunk_id = MakeChunkId(ShaA, 2)
    /\ DictHas(call.before, call.chunk_id)
    /\ ~call.scanned
    /\ call.detail = Some(DictGet(chunks, call.chunk_id, <<>>))
    /\ call.detail.val.text = <<"t", "t">>


\* ---- C14 ----------------------------------------------------------------
\* the id has no separator, or no integer after its last separator
IdIsMalformed(chunk_id) ==
    \/ "_" \notin Range(chunk_id)
    \/ parse_int(rsplit(chunk_id)[2]).exc # "none"
\* no readable source file has the id's content hash and an entry at its ordinal
IdMatchesNothing(chunk_id) ==
    /\ ~IdIsMalformed(chunk_id)
    /\ LET sha1 == rsplit(chunk_id)[1]
           position == parse_int(rsplit(chunk_id)[2]).value
       IN  \A f \in FilesOf(sha1) : position \notin 0 .. Len(chunked_reports[f].chunks) - 1

\* C14: a get of an id that is not cached and is malformed (no separator, no
\* integer after the last separator) or matches nothing (no source file with
\* that content hash, or an ordinal outside the file's entries) returns
\* not-found, raises nothing and leaves the in-memory map as it was.
GetOfUnknownIdIsNotFound ==
    (/\ GotChunk
     /\ ~DictHas(call.before, call.chunk_id)
     /\ (IdIsMalformed(call.chunk_id) \/ IdMatchesNothing(call.chunk_id)))
        => /\ call.detail = None
           /\ call.exc = "none"
           /\ chunks = call.before
GetOfUnknownIdWitness ==
    /\ GotChunk
    /\ call.chunk_id = <<"b", "_", "x">>
    /\ \E i \in 1 .. Len(chunked_reports) : chunked_reports[i] = SourceB
    /\ chunks # <<>>
    /\ ~DictHas(call.before, call.chunk_id)
    /\ call.detail = None
    /\ chunks = call.before

\* ---- C15 ----------------------------------------------------------------
\* the source files that parse as JSON, in scan order
ReadableFiles == SelectSeq(chunked_reports, LAMBDA f : f.json)

\* C15: when the directory holds a readable file that matches the id (its
\* content hash, an entry at the ordinal, a text to reconstruct from), a get
\* of the uncached id returns the chunk reconstructed from such a file,
\* whatever unreadable files the directory also holds and wherever they stand
\* in the scan order: the result is the one the scan gives with the
\* unparseable files taken out of the directory.
ScanSkipsMalformedFiles ==
    (/\ GotChunk
     /\ ~DictHas(call.before, call.chunk_id)
     /\ ~IdIsMalformed(call.chunk_id))
        => LET sha1 == rsplit(call.chunk_id)[1]
               position == parse_int(rsplit(call.chunk_id)[2]).value
           IN  (position >= 0 /\ \E f \in FilesOf(sha1) : HasText(f, position))
                  => /\ \E f \in FilesOf(sha1) : HasText(f, position) /\ ReturnedEntry(f, position)
                     /\ call.detail = scan_chunked_reports(ReadableFiles, call.chunk_id,
                                                           sha1, position)
                     /\ call.exc = "none"
ScanSkipsMalformedWitness ==
    /\ GotChunk
    /\ call.chunk_id = MakeChunkId(ShaA, 0)
    /\ ~DictHas(call.before, call.chunk_id)
    /\ \E f \in FilesOf(ShaA) :
          /\ HasText(f, 0)
          /\ ReturnedEntry(f, 0)
          /\ \E g \in 1 .. f - 1 : ~chunked_reports[g].json
          /\ \E g \in 1 .. f - 1 : chunked_reports[g] = SourceA3
    /\ DictHas(chunks, call.chunk_id)

-----------------------------------------------------------------------------
(* The document scope of a search (under SpecSearch).                      *)

\* the name under which the chunks of the document with this content hash are stored
DocumentNameOf(sha1) ==
    IF sha1 = ShaA THEN <<"A">> ELSE IF sha1 = ShaB THEN <<"B">> ELSE <<>>

\* a returned chunk belongs to the document with content hash sha1: its id is
\* formed from that hash, or its id carries no hash and it is stored under the
\* document's name
BelongsTo(chunk, sha1) ==
    IF "_" \in Range(chunk.chunk_id)
    THEN rsplit(chunk.chunk_id)[1] = sha1
    ELSE chunk.document_name = DocumentNameOf(sha1)

\* C16: in a hybrid search made with the document scope H, the vector search
\* and the lexical search are restricted to the same document, so every chunk
\* returned belongs to document H.
HybridScopedSearchStaysInDocument ==
    (/\ SearchReturned
     /\ call.search_mode = 2
     /\ ~call.document_sha1.none
     /\ call.ret.exc = "none")
        => \A i \in DOMAIN call.ret.value :
              BelongsTo(call.ret.value[i], call.document_sha1.val)

-----------------------------------------------------------------------------
(* Hydration of the candidates of a search (under SpecSearch).             *)

\* ChunkStore.get for a candidate id on the cache the search started with
Resolved(chunk_id) == get_chunk(call.before, chunk_id).detail
\* the ids of the candidates get resolves, in candidate order
ResolvedCandidates ==
    LET ids == [i \in DOMAIN call.candidates |-> call.candidates[i][1]]
    IN  SelectSeq(ids, LAMBDA id : ~Resolved(id).none)
ReturnedIds == [i \in DOMAIN call.ret.value |-> call.ret.value[i].chunk_id]
\* the rerank request was made and answered: the result is the service's choice
RerankAnswered ==
    /\ call.search_mode = 2
    /\ api_key
    /\ call.rerank_response.kind = "Json"

\* C17: in both modes every chunk of the result is a candidate that
\* ChunkStore.get resolved, with the fields get gave it; a candidate get does
\* not resolve is absent from the result and does not make the search fail;
\* the resolved candidates are still returned (all of them, in candidate
\* order, up to the requested number, unless the rerank service chose).
ResultIsHydratedCandidates ==
    (SearchReturned /\ ~EmbeddingFailed)
        => /\ call.ret.exc = "none"
           /\ \A i \in DOMAIN call.ret.value :
                 LET chunk == call.ret.value[i]
                     got == Resolved(chunk.chunk_id)
                 IN  /\ \E j \in DOMAIN call.candidates : call.candidates[j][1] = chunk.chunk_id
                     /\ ~got.none
                     /\ \A field \in DOMAIN got.val : chunk[field] = got.val[field]
           /\ \A j \in DOMAIN call.candidates :
                 Resolved(call.candidates[j][1]).none
                    => \A i \in DOMAIN call.ret.value :
                          call.ret.value[i].chunk_id # call.candidates[j][1]
           /\ ~RerankAnswered
                 => ReturnedIds = Take(Take(ResolvedCandidates, RERANK_TOP_K), call.top_k)
ResultIsHydratedWitness ==
    /\ SearchReturned
    /\ call.search_mode = 1
    /\ call.ret.exc = "none"
    /\ \E j \in DOMAIN call.candidates :
          /\ call.candidates[j][1] = MakeChunkId(ShaA, 1)
          /\ Resolved(MakeChunkId(ShaA, 1)).none
          /\ j < Len(call.candidates)
    /\ ReturnedIds = <<MakeChunkId(ShaA, 2), MakeChunkId(ShaA, 0)>>
    /\ ~DictHas(call.before, MakeChunkId(ShaA, 2))

\* ---- C18 ----------------------------------------------------------------
\* the names of the known documents: those of the cached chunks and those of
\* the chunk-source files (the file's stem when it records no file name)
KnownDocumentNames ==
    {chunks[i][2].document_name : i \in DOMAIN chunks}
    \cup {IF Truthy(chunked_reports[f].file_name) THEN chunked_reports[f].file_name.val
          ELSE chunked_reports[f].stem :
             f \in {g \in DOMAIN chunked_reports : chunked_reports[g].json}}
\* the name matches no known document: it is part of no known name and no
\* known name is part of it
MatchesNoKnownDocument(name) ==
    \A known \in KnownDocumentNames : ~IsSubstring(name, known) /\ ~IsSubstring(known, name)

\* C18: a search made, as the pipeline makes it, for a document name that
\* matches no known document returns what the same call (query, mode, k)
\* returns without a scope.
UnknownScopeFallsBackToUnscoped ==
    [][ (/\ call'.op = "search"
         /\ Truthy(call'.product_name)
         /\ MatchesNoKnownDocument(call'.product_name.val)
         /\ call'.document_sha1 = answer_document_sha1(call'.product_name))
           => call'.ret = search(call'.query, call'.top_k, call'.search_mode, None, None,
                                 call'.embed_response, call'.bm25_scores,
                                 call'.rerank_response, "low").ret
      ]_vars

-----------------------------------------------------------------------------
(* Shards built by build_index_for_document and searched with their own    *)
(* source vectors.  SpecShard starts from an empty index directory, builds *)
(* shards and makes scoped searches of them.                               *)

ShardEmbeddings ==
    {<<>>,
     << <<1, 0>>, <<0, 1>>, <<3, 4>> >>,
     << <<3, 4>>, <<0, 0>>, <<3, 4>> >>,
     << <<1, 0>>, <<2, 0>>, <<0, 0>> >>}
SourceVectors == UNION {Range(e) : e \in ShardEmbeddings}

InitShard ==
    /\ index_dir \in BOOLEAN
    /\ index_files = <<>>
    /\ document_indices = <<>>
    /\ document_chunk_maps = <<>>
    /\ index = NoneIndex
    /\ chunk_ids = <<>>
    /\ NoStore /\ NoLexicalIndex
    /\ api_key = FALSE
    /\ call = Idle

\* FAISSIndex.build_index_for_document(embeddings, chunk_ids, sha1, use_cosine)
\* with one id per embedding
BuildIndexForDocument ==
    /\ call.op = "idle"
    /\ \E embeddings \in ShardEmbeddings, sha1 \in {ShaA, ShaB}, use_cosine \in BOOLEAN :
          LET r == build_index_for_document(embeddings, IdsFor(sha1, Len(embeddings)),
                                            sha1, use_cosine)
          IN  /\ document_indices' = r.document_indices
              /\ document_chunk_maps' = r.document_chunk_maps
              /\ index_files' = r.index_files
              /\ call' = [op |-> "build_index_for_document", sha1 |-> sha1, exc |-> r.exc]
    /\ UNCHANGED <<index_dir, index, chunk_ids, storeVars, lexVars, api_key>>

\* FAISSIndex.search(query_embedding, top_k, document_sha1) with a source vector
SearchShard ==
    /\ call.op = "idle"
    /\ \E q \in SourceVectors, k \in 1..MaxTopK, sha1 \in {ShaA, ShaB}, tie \in {"low", "high"} :
          LET hits == faiss_search(q, k, Some(sha1), tie)
          IN  call' = [op |-> "faiss_search", query_embedding |-> q, top_k |-> k,
                       document_sha1 |-> Some(sha1), hits |-> hits, ret |-> Pairs(hits)]
    /\ UNCHANGED <<faissVars, storeVars, lexVars, api_key>>

NextShard == BuildIndexForDocument \/ SearchShard \/ Return

SpecShard == InitShard /\ [][NextShard]_vars

\* the file of the shard the last search was scoped to
SearchedShards ==
    {f \in DOMAIN index_files : Some(index_files[f].sha1) = call.document_sha1}
\* the vector as the shard stores it
Stored(f, i) == index_files[f].index.vectors[i]
IsCosine(f) == index_files[f].index.type = "IndexFlatIP"

\* C19 as claimed: a scoped search of a built shard with any one of its
\* source vectors returns that vector's own id as the first result.
SelfQueryReturnsOwnId ==
    call.op = "faiss_search"
       => \A f \in SearchedShards : \A i \in DOMAIN index_files[f].embeddings :
             index_files[f].embeddings[i] = call.query_embedding
                => /\ call.ret # <<>>
                   /\ call.ret[1][1] = index_files[f].chunk_ids[i]

\* C19, amended: the same for a source vector that no other vector of the
\* shard equals as stored (equal, or for a cosine shard of the same
\* direction) and that, for a cosine shard, is not the zero vector; for any
\* source vector the first result is the id of a vector stored equal to it,
\* unless the shard is a cosine shard and the vector is zero.
SelfQueryReturnsOwnIdWhenDistinct ==
    call.op = "faiss_search"
       => \A f \in SearchedShards : \A i \in DOMAIN index_files[f].embeddings :
             (/\ index_files[f].embeddings[i] = call.query_embedding
              /\ ~(IsCosine(f) /\ Norm(call.query_embedding) = 0))
                => /\ call.ret # <<>>
                   /\ \E j \in DOMAIN index_files[f].embeddings :
                         /\ Stored(f, j) = Stored(f, i)
                         /\ call.ret[1][1] = index_files[f].chunk_ids[j]
                         /\ call.hits[1].pos = j - 1
                   /\ (\A j \in DOMAIN index_files[f].embeddings : j # i => Stored(f, j) # Stored(f, i))
                         => call.ret[1][1] = index_files[f].chunk_ids[i]
SelfQueryWitness ==
    /\ call.op = "faiss_search"
    /\ call.query_embedding = <<3, 4>>
    /\ \E f \in SearchedShards :
          /\ IsCosine(f)
          /\ index_files[f].embeddings = << <<1, 0>>, <<0, 1>>, <<3, 4>> >>
          /\ call.ret # <<>>
          /\ call.ret[1] = <<index_files[f].chunk_ids[3], ROne>>

-----------------------------------------------------------------------------
(* Two requests on one RetrievalService (SpecRequests).  A request is      *)
(* RAGPipeline.answer from its call of search on: search runs up to its    *)
(* await of embed_query, where the other request can run, then from the    *)
(* embedding to its return in one piece; answer then awaits the language   *)
(* model and puts the search results into its response as sources.  The    *)
(* rerank call is a blocking requests.post and suspends nothing.           *)
(* call.requests[i] is request i: pc is "idle", "embedding" (suspended in  *)
(* search), "generating" (search returned, answer awaits the model),       *)
(* "done" or "failed"; call.initial is the cache as loaded.                *)

RequestIds == {1, 2}
RequestIndexFiles ==
    <<SearchFileA,
      [sha1 |-> ShaB, readable |-> TRUE, index |-> create_index(SearchEmbeddingsB, TRUE),
       ids |-> "ok", chunk_ids |-> IdsFor(ShaB, 2)]>>
RequestEmbedResponses ==
    {[kind |-> "ok", embedding |-> <<3, 4>>], [kind |-> "ok", embedding |-> <<1, 0>>],
     [kind |-> "error"]}
RequestRerankResponses ==
    {[kind |-> "RequestException"],
     [kind |-> "Json", json |-> [has_results |-> TRUE, iterable |-> TRUE, results |->
        <<[type |-> "dict", index |-> <<"int", 0>>, relevance_score |-> <<"num", Rat(1, 5)>>]>>]]}
RequestProductNames == {None, Some(<<"A">>)}

InitRequests ==
    /\ index_dir = TRUE
    /\ index_files = RequestIndexFiles
    /\ document_indices = load_document_indices(<< <<>>, <<>> >>, index_files)[1]
    /\ document_chunk_maps = load_document_indices(<< <<>>, <<>> >>, index_files)[2]
    /\ index = NoneIndex
    /\ chunk_ids = <<>>
    /\ chunks \in StoredChunks
    /\ chunked_reports = <<SourceA, SourceB>>
    /\ bm25 = init_bm25(chunks)[1]
    /\ bm25_chunk_ids = init_bm25(chunks)[2]
    /\ api_key \in BOOLEAN
    /\ call = [op |-> "requests", initial |-> chunks,
               requests |-> [i \in RequestIds |-> [pc |-> "idle"]]]

\* search(query, top_k=..., search_mode, product_name) up to `await embed_query`
BeginSearch(i) ==
    /\ call.requests[i].pc = "idle"
    /\ \E search_mode \in SearchModes, product_name \in RequestProductNames :
          call' = [call EXCEPT !.requests[i] =
                      [pc |-> "embedding", query |-> <<"q">>, top_k |-> MaxTopK,
                       search_mode |-> search_mode, product_name |-> product_name,
                       document_sha1 |-> None,
                       filtered_chunk_ids |-> search_begin(chunks, product_name)]]
    /\ UNCHANGED <<faissVars, storeVars, lexVars, api_key>>

\* the embedding call answers and search runs to its return
ResumeSearch(i) ==
    /\ call.requests[i].pc = "embedding"
    /\ LET req == call.requests[i] IN
       \E embed_response \in RequestEmbedResponses :
       \E bm25_scores \in (IF req.search_mode = 1 \/ bm25.none THEN {<<>>}
                           ELSE {[j \in 1..Len(bm25_chunk_ids) |-> RInt(j)]}) :
       \E rerank_response \in (IF req.search_mode = 1 \/ ~api_key
                               THEN {[kind |-> "RequestException"]}
                               ELSE RequestRerankResponses) :
          LET r == search_resume(chunks, req.filtered_chunk_ids, req.query, req.top_k,
                                 req.search_mode, req.document_sha1, embed_response,
                                 bm25_scores, rerank_response, "low")
          IN  /\ chunks' = r.chunks
              /\ call' = [call EXCEPT !.requests[i] =
                            [pc |-> IF r.ret.exc = "none" THEN "generating" ELSE "failed",
                             query |-> req.query, top_k |-> req.top_k,
                             search_mode |-> req.search_mode,
                             product_name |-> req.product_name,
                             document_sha1 |-> req.document_sha1,
                             embed_response |-> embed_response, bm25_scores |-> bm25_scores,
                             rerank_response |-> rerank_response,
                             ret |-> r.ret, shared |-> r.shared, sources |-> <<>>]]
    /\ UNCHANGED <<faissVars, chunked_reports, lexVars, api_key>>

\* what a list of returned dicts shows now: a dict of the cache shows the
\* cache's entry, a copy shows what it was given
Dereference(ret, shared) ==
    [j \in DOMAIN ret |->
        IF shared THEN DictGet(chunks, ret[j].chunk_id, <<>>) ELSE ret[j]]

\* the language model answers and answer returns "sources": search_results
Respond(i) ==
    /\ call.requests[i].pc = "generating"
    /\ call' = [call EXCEPT !.requests[i].pc = "done",
                            !.requests[i].sources =
                                Dereference(call.requests[i].ret.value,
                                            call.requests[i].shared)]
    /\ UNCHANGED <<faissVars, storeVars, lexVars, api_key>>

NextRequests == \E i \in RequestIds : BeginSearch(i) \/ ResumeSearch(i) \/ Respond(i)

SpecRequests == InitRequests /\ [][NextRequests]_vars

\* what the search of a request returns when it runs alone on the service as loaded
Alone(req) ==
    With(search_begin(call.initial, req.product_name), LAMBDA filtered_chunk_ids :
         search_resume(call.initial, filtered_chunk_ids, req.query, req.top_k,
                       req.search_mode, req.document_sha1, req.embed_response,
                       req.bm25_scores, req.rerank_response, "low").ret)

\* C20: two interleaved requests are independent.  What its search returned
\* to a request (ids, text, similarity) is what the search returns running
\* alone; the chunks in the request's response are those its search returned,
\* not changed by the other request; and a cache entry holds the value
\* reconstructed for its id, whichever request wrote it.
RequestsAreIndependent ==
    call.op = "requests"
       => /\ \A i \in RequestIds :
                LET req == call.requests[i]
                IN  /\ req.pc \in {"generating", "done", "failed"} => req.ret = Alone(req)
                    /\ req.pc = "done" => req.sources = req.ret.value
          /\ \A k \in DictKeys(chunks) :
                LET got == get_chunk(call.initial, k).detail
                    kept == DictGet(chunks, k, <<>>)
                IN  /\ ~got.none
                    /\ \A field \in DOMAIN got.val \ {"similarity"} : kept[field] = got.val[field]

-----------------------------------------------------------------------------
(* A shard build beside a directory load (SpecBuildLoad).  The build is    *)
(* VectorDBService.process_chunk_json from its write of the .faiss file    *)
(* on; the load is the construction of a FAISSIndex on the same directory  *)
(* by another process (the search service starting, a script).  call holds *)
(* the builder's position (pc, with the build under way), the builds that  *)
(* completed and the number of builds and loads made.                      *)

MaxBuilds == 2     \* builds of the document made in a behaviour
MaxLoads == 2      \* directory loads made in a behaviour

\* the embeddings of the chunks of the document at its successive builds
BuildEmbeddings ==
    {<< <<1, 0>>, <<0, 1>>, <<3, 4>> >>, << <<4, 3>>, <<0, 1>> >>, << <<3, 4>> >>}
\* a build as it ends: the vector data and the id list it wrote
CompletedBuild(embeddings) ==
    [index |-> create_index(embeddings, TRUE), chunk_ids |-> IdsFor(ShaA, Len(embeddings))]

InitBuildLoad ==
    /\ index_dir = TRUE
    /\ index_files = <<>>
    /\ document_indices = <<>>
    /\ document_chunk_maps = <<>>
    /\ index = NoneIndex
    /\ chunk_ids = <<>>
    /\ NoStore /\ NoLexicalIndex
    /\ api_key = FALSE
    /\ call = [op |-> "build_load", pc |-> "idle", building |-> <<>>, completed |-> {},
               builds |-> 0, loads |-> 0]

\* faiss.write_index(index, str(faiss_file_path))
WriteIndex ==
    /\ call.op = "build_load"
    /\ call.pc = "idle"
    /\ call.builds < MaxBuilds
    /\ \E embeddings \in BuildEmbeddings :
          /\ index_files' = write_index(index_files, ShaA, create_index(embeddings, TRUE), "ok")
          /\ call' = [call EXCEPT !.pc = "index_written", !.building = embeddings,
                                  !.builds = @ + 1]
    /\ UNCHANGED <<index_dir, document_indices, document_chunk_maps, index, chunk_ids,
                   storeVars, lexVars, api_key>>

\* pickle.dump(chunk_ids, f) into the .faiss.ids file
WriteIds ==
    /\ call.op = "build_load"
    /\ call.pc = "index_written"
    /\ index_files' = write_ids(index_files, ShaA, IdsFor(ShaA, Len(call.building)), "ok")
    /\ call' = [call EXCEPT !.pc = "idle", !.building = <<>>,
                            !.completed = @ \cup {CompletedBuild(call.building)}]
    /\ UNCHANGED <<index_dir, document_indices, document_chunk_maps, index, chunk_ids,
                   storeVars, lexVars, api_key>>

\* FAISSIndex(index_dir=...): a new registry loaded from the directory
LoadDirectory ==
    /\ call.op = "build_load"
    /\ call.loads < MaxLoads
    /\ document_indices' = load_document_indices(<< <<>>, <<>> >>, index_files)[1]
    /\ document_chunk_maps' = load_document_indices(<< <<>>, <<>> >>, index_files)[2]
    /\ call' = [call EXCEPT !.loads = @ + 1]
    /\ UNCHANGED <<index_dir, index_files, index, chunk_ids, storeVars, lexVars, api_key>>

NextBuildLoad == WriteIndex \/ WriteIds \/ LoadDirectory

SpecBuildLoad == InitBuildLoad /\ [][NextBuildLoad]_vars

\* C21: whatever the interleaving of builds (first build or rebuild) and
\* loads, a shard the registry holds has the vector data and the id list of
\* one and the same completed build.
RegistryHoldsOnlyCompletedBuilds ==
    call.op = "build_load"
       => \A sha1 \in DictKeys(document_indices) :
             \E b \in call.completed :
                /\ DictGet(document_indices, sha1, NoneIndex) = b.index
                /\ DictHas(document_chunk_maps, sha1)
                /\ DictGet(document_chunk_maps, sha1, <<>>) = b.chunk_ids

-----------------------------------------------------------------------------
(* Ingestion of a chunk-source file (SpecIngest): VectorDBService builds   *)
(* the shard of the file, load_chunks_from_json stores its chunks, and     *)
(* MetadataStorage.get_chunk resolves ids against the file.                *)

\* chunk.get(key, default) on an entry of content.chunks
Get(chunk_data, key, default) ==
    IF key \in DOMAIN chunk_data THEN chunk_data[key] ELSE default

max_chunk_length == 2048

\* EmbeddingService.embed_documents for a service that answers each batch with
\* one embedding per text it was sent, in order (response.of gives the
\* embedding of a text): texts that are empty or blank are not sent.
embed_documents(texts, response) ==
    LET valid_texts == SelectSeq(texts, LAMBDA t : t # <<>> /\ ~IsBlank(t))
        embeddings == IF valid_texts = <<>> THEN Ok(<<>>)
                      ELSE IF response.kind # "ok" THEN Raise("Exception")
                      ELSE Ok([i \in DOMAIN valid_texts |-> response.of[valid_texts[i]]])
    IN  IF embeddings.exc # "none" THEN embeddings
        ELSE IF embeddings.value = <<>> THEN Raise("Exception")
        ELSE embeddings

\* VectorDBService._create_vector_index
create_vector_index(embeddings) ==
    IF embeddings = <<>> THEN Raise("ValueError")
    ELSE Ok(IndexFlatIP([i \in DOMAIN embeddings |-> Normalized(embeddings[i])]))

\* the loop of process_chunk_json over enumerate(chunks): <<text, chunk_id>> of
\* the entries whose text is not empty, the text cut at max_len and the id
\* the entry's own chunk_id or "{sha1}_{idx}"
RECURSIVE extract_text_chunks(_, _, _, _)
extract_text_chunks(entries, sha1, idx, max_len) ==
    IF idx >= Len(entries) THEN <<>>
    ELSE LET chunk == entries[idx + 1]
             text == chunk.text
             own == Get(chunk, "chunk_id", <<>>)
             chunk_id == IF own # <<>> THEN own ELSE MakeChunkId(sha1, idx)
             rest == extract_text_chunks(entries, sha1, idx + 1, max_len)
         IN  IF text.val = <<>> THEN rest
             ELSE << <<Take(text.val, max_len), chunk_id>> >> \o rest

\* VectorDBService.process_chunk_json(chunk_json_path, output_dir) on the
\* files of output_dir: the exception that leaves it (exc), the texts sent to
\* the embedding service, the ids and embeddings of the shard, and the files
\* of output_dir afterwards
process_chunk_json(file, max_len, response, files) ==
    LET failed(e) == [exc |-> e, sha1 |-> <<>>, text_chunks |-> <<>>, chunk_ids |-> <<>>,
                      embeddings |-> <<>>, index_files |-> files]
    IN  IF ~file.json THEN failed("JSONDecodeError")
        ELSE IF file.sha1.none \/ file.sha1.val = <<>> THEN failed("ValueError")
        ELSE IF \E i \in DOMAIN file.chunks : file.chunks[i].text.type # "str"
        THEN failed("TypeError")
        ELSE LET sha1 == file.sha1.val
                 extracted == extract_text_chunks(file.chunks, sha1, 0, max_len)
                 text_chunks == [i \in DOMAIN extracted |-> extracted[i][1]]
                 ids == [i \in DOMAIN extracted |-> extracted[i][2]]
                 embeddings == embed_documents(text_chunks, response)
             IN  IF text_chunks = <<>> THEN failed("ValueError")
                 ELSE IF embeddings.exc # "none" THEN failed(embeddings.exc)
                 ELSE LET built == create_vector_index(embeddings.value).value
                          written == write_index(files, sha1, built, "ok")
                      IN  [exc |-> "none", sha1 |-> sha1, text_chunks |-> text_chunks,
                           chunk_ids |-> ids, embeddings |-> embeddings.value,
                           index_files |-> write_ids(written, sha1, ids, "ok")]

\* str(sha1) inside f"{sha1}_{idx}" for the sha1 metainfo.get("sha1") gives
FormatSha1(sha1) == IF sha1.none THEN <<"N", "o", "n", "e">> ELSE sha1.val

\* The loop of load_chunks_from_json over enumerate(chunks_data): the store
\* afterwards (chunks) and, for each entry, the record saved for it (saved,
\* None for an entry that was skipped).  The record is chunk.model_dump() of
\* the Chunk built from the same expressions as the dict of get_chunk.
RECURSIVE load_entries(_, _, _, _)
load_entries(file, idx, store, saved) ==
    IF idx >= Len(file.chunks) THEN [chunks |-> store, saved |-> saved]
    ELSE LET chunk_data == file.chunks[idx + 1]
             text == chunk_data.text
             own == Get(chunk_data, "chunk_id", <<>>)
             chunk_id == IF own # <<>> THEN own ELSE MakeChunkId(FormatSha1(file.sha1), idx)
             skipped == load_entries(file, idx + 1, store, Append(saved, None))
         IN  IF text.type # "str" THEN skipped
             ELSE IF text.val = <<>> \/ IsBlank(text.val) THEN skipped
             ELSE IF DictHas(store, chunk_id) THEN skipped
             ELSE LET chunk == chunk_dict(chunk_id, file, text.val)
                  IN  load_entries(file, idx + 1, DictSet(store, chunk_id, chunk),
                                   Append(saved, Some(chunk)))

\* load_chunks_from_json(chunk_json_path, metadata_storage)
load_chunks_from_json(file, store) ==
    IF ~file.json THEN [chunks |-> store, saved |-> <<>>]
    ELSE load_entries(file, 0, store, <<>>)

\* chunk-source files: blank texts, entries with a chunk_id of their own, a
\* file without sha1, a file that is no JSON
OwnId(t, id) == [text |-> [type |-> "str", val |-> t], chunk_id |-> id]
SourceClean ==
    [json |-> TRUE, stem |-> <<"B">>, sha1 |-> Some(ShaB),
     file_name |-> Some(<<"B", ".", "m", "d">>),
     chunks |-> <<Text(<<"t">>), Text(<<"t", "t">>), Text(<<"t", " ", "t">>)>>]
SourceOwnIds ==
    [json |-> TRUE, stem |-> <<"C">>, sha1 |-> Some(ShaC), file_name |-> None,
     chunks |-> <<OwnId(<<"t">>, UuidChunkId), Text(<<"t", "t">>)>>]
SourceEmptyTexts ==
    [json |-> TRUE, stem |-> <<"E">>, sha1 |-> Some(ShaC), file_name |-> None,
     chunks |-> <<Text(<<>>), Text(<<"t", "t">>), Text(<<>>)>>]
SourceNoSha1 ==
    [json |-> TRUE, stem |-> <<"N">>, sha1 |-> None, file_name |-> None,
     chunks |-> <<Text(<<"t">>)>>]
IngestSources ==
    {SourceA, SourceB, SourceClean, SourceOwnIds, SourceEmptyTexts, SourceNoSha1,
     MalformedSource}

\* the embedding service: the vector it gives a text, or a failed call
TextVectors == << <<1, 0>>, <<3, 4>>, <<0, 1>>, <<4, 3>> >>
SourceTexts == {<<"t">>, <<"t", "t">>, <<"t", " ", "t">>, <<" ">>}
IngestEmbedResponses ==
    {[kind |-> "ok", of |-> [t \in SourceTexts |-> TextVectors[Len(t)]]],
     [kind |-> "ok", of |-> [t \in SourceTexts |-> TextVectors[Len(t) + 1]]],
     [kind |-> "error"]}

\* ids looked up in the store: those of the shard on disk and "{sha1}_{i}"
IngestIds ==
    UNION {Range(index_files[f].chunk_ids) : f \in DOMAIN index_files}
       \cup {MakeChunkId(FormatSha1(chunked_reports[1].sha1), i) : i \in 0..MaxItems}

InitIngest ==
    /\ index_dir = TRUE
    /\ index_files = <<>>
    /\ document_indices = <<>>
    /\ document_chunk_maps = <<>>
    /\ index = NoneIndex
    /\ chunk_ids = <<>>
    /\ chunks = <<>>
    /\ \E file \in IngestSources : chunked_reports = <<file>>
    /\ NoLexicalIndex
    /\ api_key = TRUE
    /\ call = [op |-> "none"]

\* await VectorDBService.process_chunk_json(chunk_json_path, output_dir)
ProcessChunkJson ==
    /\ \E response \in IngestEmbedResponses :
          LET r == process_chunk_json(chunked_reports[1], max_chunk_length, response,
                                      index_files)
          IN  /\ index_files' = r.index_files
              /\ call' = [op |-> "process_chunk_json", response |-> response, exc |-> r.exc,
                          sha1 |-> r.sha1, text_chunks |-> r.text_chunks,
                          chunk_ids |-> r.chunk_ids, embeddings |-> r.embeddings]
    /\ UNCHANGED <<index_dir, document_indices, document_chunk_maps, index, chunk_ids,
                   storeVars, lexVars, api_key>>

\* load_chunks_from_json(chunk_json_path, metadata_storage)
LoadChunksFromJson ==
    /\ LET r == load_chunks_from_json(chunked_reports[1], chunks)
       IN  /\ chunks' = r.chunks
           /\ call' = [op |-> "load_chunks_from_json", before |-> chunks, saved |-> r.saved]
    /\ UNCHANGED <<faissVars, chunked_reports, lexVars, api_key>>

\* MetadataStorage.get_chunk(chunk_id)
ResolveChunk ==
    /\ \E chunk_id \in IngestIds :
          LET r == get_chunk(chunks, chunk_id)
          IN  /\ chunks' = r.chunks
              /\ call' = [op |-> "get_chunk", chunk_id |-> chunk_id, detail |-> r.detail]
    /\ UNCHANGED <<faissVars, chunked_reports, lexVars, api_key>>

NextIngest == ProcessChunkJson \/ LoadChunksFromJson \/ ResolveChunk

SpecIngest == InitIngest /\ [][NextIngest]_vars

\* the files of the shard the last build wrote
BuiltShard == CHOOSE f \in Range(index_files) : f.sha1 = call.sha1
BuildSucceeded == call.op = "process_chunk_json" /\ call.exc = "none"

\* C22: a shard that process_chunk_json has written holds as many vectors as
\* ids, and row i of its vectors is the (normalized) embedding of the text of
\* the chunk that entry i of its id list names.
ShardRowsMatchIds ==
    BuildSucceeded
       => /\ Len(BuiltShard.index.vectors) = Len(BuiltShard.chunk_ids)
          /\ \A i \in DOMAIN BuiltShard.chunk_ids :
                /\ i \in DOMAIN BuiltShard.index.vectors
                /\ BuiltShard.index.vectors[i]
                      = Normalized(call.response.of[call.text_chunks[i]])

\* C23: after the directory is loaded, a shard whose .faiss file was read and
\* whose .faiss.ids file exists but cannot be read is not in the registry.
UnreadableIdsNotPublished ==
    \A f \in DOMAIN index_files :
       (index_files[f].readable /\ index_files[f].ids = "corrupt")
          => ~DictHas(document_indices, index_files[f].sha1)

-----------------------------------------------------------------------------
(* A build whose writes can fail (SpecBuildSteps).                         *)

WriteOutcomes == {"ok", "untouched", "truncated"}

\* FAISSIndex.build_index_for_document statement by statement, for the outcomes
\* of its two writes: an exception of a write leaves the method at once.
build_index_for_document_steps(embeddings, ids, sha1, use_cosine, index_outcome, ids_outcome) ==
    LET result(e, files) ==
            [exc |-> e, document_indices |-> document_indices,
             document_chunk_maps |-> document_chunk_maps, index_files |-> files]
        built == create_index(embeddings, use_cosine)
        index_written == write_index(index_files, sha1, built, index_outcome)
        ids_written == write_ids(index_written, sha1, ids, ids_outcome)
    IN  IF embeddings = <<>> THEN result("none", index_files)
        ELSE IF ~index_dir THEN result("ValueError", index_files)
        ELSE IF index_outcome # "ok" THEN result("RuntimeError", index_written)
        ELSE IF ids_outcome # "ok" THEN result("OSError", ids_written)
        ELSE [exc |-> "none",
              document_indices |-> DictSet(document_indices, sha1, built),
              document_chunk_maps |-> DictSet(document_chunk_maps, sha1, ids),
              index_files |-> ids_written]

InitBuildSteps ==
    /\ index_dir \in BOOLEAN
    /\ index_files = <<>>
    /\ document_indices = <<>>
    /\ document_chunk_maps = <<>>
    /\ index = NoneIndex
    /\ chunk_ids = <<>>
    /\ NoStore /\ NoLexicalIndex
    /\ api_key = FALSE
    /\ call = [op |-> "idle", builds |-> 0]

\* FAISSIndex.build_index_for_document(embeddings, chunk_ids, sha1, use_cosine)
BuildIndexForDocumentSteps ==
    /\ call.builds < MaxBuilds
    /\ \E embeddings \in ShardEmbeddings, sha1 \in {ShaA, ShaB}, use_cosine \in BOOLEAN,
          index_outcome \in WriteOutcomes, ids_outcome \in WriteOutcomes :
          LET r == build_index_for_document_steps(embeddings, IdsFor(sha1, Len(embeddings)),
                                                  sha1, use_cosine, index_outcome, ids_outcome)
          IN  /\ document_indices' = r.document_indices
              /\ document_chunk_maps' = r.document_chunk_maps
              /\ index_files' = r.index_files
              /\ call' = [op |-> "build_index_for_document", sha1 |-> sha1, exc |-> r.exc,
                          registry |-> <<document_indices, document_chunk_maps>>,
                          builds |-> call.builds + 1]
    /\ UNCHANGED <<index_dir, index, chunk_ids, storeVars, lexVars, api_key>>

\* FAISSIndex(index_dir=...) on the directory as the builds left it
ReloadDirectory ==
    /\ index_dir
    /\ call.op = "build_index_for_document"
    /\ document_indices' = load_document_indices(<< <<>>, <<>> >>, index_files)[1]
    /\ document_chunk_maps' = load_document_indices(<< <<>>, <<>> >>, index_files)[2]
    /\ call' = [op |-> "load", builds |-> call.builds]
    /\ UNCHANGED <<index_dir, index_files, index, chunk_ids, storeVars, lexVars, api_key>>

NextBuildSteps == BuildIndexForDocumentSteps \/ ReloadDirectory

SpecBuildSteps == InitBuildSteps /\ [][NextBuildSteps]_vars

\* C24: after a build that a failed write ended, the directory holds no file
\* of that shard and the registry is the one from before the build.
FailedBuildLeavesNothing ==
    (call.op = "build_index_for_document" /\ call.exc \in {"RuntimeError", "OSError"})
       => /\ \A f \in DOMAIN index_files : index_files[f].sha1 # call.sha1
          /\ <<document_indices, document_chunk_maps>> = call.registry

\* C25: an unscoped search over the registry returns a ranking whose entries
\* all come from shards of one metric, so that no inner product is ranked
\* against a squared distance.
UnscopedRankingHasOneMetric ==
    (call.op = "faiss_search" /\ call.document_sha1 = None /\ index_dir)
       => \A i, j \in DOMAIN call.hits :
             ShardIndex(call.hits[i].sha1).type = ShardIndex(call.hits[j].sha1).type

\* vector search ranks raw score s before raw score t in a shard of the metric
RanksBefore(metric, s, t) == IF metric = "cosine" THEN RGt(s, t) ELSE RLt(s, t)

\* C27: with an empty lexical list, of two candidates of one shard the one
\* that vector search ranks better (higher cosine similarity, lower distance)
\* does not get the lower fused score, for both metrics.
FusionKeepsVectorRanking ==
    (Fused /\ call.bm25_results = <<>>) =>
        \A i, j \in DOMAIN call.vector_results :
            RanksBefore(call.metric, call.vector_results[i][2], call.vector_results[j][2])
               => RLe(ScoreIn(call.ret, call.vector_results[j][1]),
                      ScoreIn(call.ret, call.vector_results[i][1]))

\* the ids of the chunks of a store, in the store's order
StoreChunkIds(store) == [i \in DOMAIN store |-> store[i][2].chunk_id]

WrittenIdsResolveToEmbeddedText ==
    BuildSucceeded
       => \A i \in DOMAIN call.chunk_ids :
             LET detail == get_chunk(<<>>, call.chunk_ids[i]).detail
             IN  /\ ~detail.none
                 /\ detail.val.text = call.text_chunks[i]

\* C29: for every entry i of a chunk-source file with hash H that
\* load_chunks_from_json stores a record for, get_chunk("H_i") over an empty
\* store reconstructs a record with the same fields.
LazyRecordEqualsExplicitRecord ==
    (call.op = "load_chunks_from_json" /\ ~chunked_reports[1].sha1.none)
       => \A i \in DOMAIN call.saved :
             ~call.saved[i].none
                => get_chunk(<<>>, MakeChunkId(chunked_reports[1].sha1.val, i - 1)).detail
                      = call.saved[i]

-----------------------------------------------------------------------------
(* DocumentChunker.chunk_markdown_file, one iteration of its loop at a     *)
(* time (SpecChunking).  A line of the file is "x" (text) or " " (blank);  *)
(* call holds the arguments and the locals lines, i and chunks.            *)

MaxLines == 3          \* lines of the Markdown file
MaxIterations == 5     \* loop iterations followed (more than MaxLines)

ChunkSizes == -1..3
ChunkOverlaps == -1..3
MarkdownFiles == UNION {[1..n -> {"x", " "}] : n \in 0..MaxLines}

\* lines[a:b] of Python: negative bounds count from the end, and the bounds
\* are clipped to the list
ClipIndex(k, n) == IF k < 0 THEN (IF k + n < 0 THEN 0 ELSE k + n) ELSE Min(k, n)
PySlice(lines, a, b) ==
    SubSeq(lines, ClipIndex(a, Len(lines)) + 1, ClipIndex(b, Len(lines)))

\* chunk_text.strip() of the joined lines is not empty
StripsToText(slice) == \E k \in DOMAIN slice : slice[k] # " "

InitChunking ==
    /\ NoIndex /\ NoStore /\ NoLexicalIndex
    /\ api_key = FALSE
    /\ \E exists \in BOOLEAN, lines \in MarkdownFiles,
          chunk_size \in ChunkSizes, chunk_overlap \in ChunkOverlaps :
          call = [op |-> "chunk_markdown_file", pc |-> "open", exists |-> exists,
                  file |-> lines, chunk_size |-> chunk_size, chunk_overlap |-> chunk_overlap,
                  lines |-> <<>>, i |-> 0, chunks |-> <<>>, iterations |-> 0]

\* md_path.exists(), f.readlines(), chunks = [], i = 0
ReadLines ==
    /\ call.op = "chunk_markdown_file"
    /\ call.pc = "open"
    /\ call' = IF call.exists
               THEN [call EXCEPT !.pc = "loop", !.lines = call.file]
               ELSE [call EXCEPT !.pc = "raised"]
    /\ UNCHANGED <<faissVars, storeVars, lexVars, api_key>>

\* one turn of `while i < total_lines`
ChunkLoop ==
    /\ call.op = "chunk_markdown_file"
    /\ call.pc = "loop"
    /\ call.i < Len(call.lines)
    /\ call.iterations < MaxIterations
    /\ LET start_line == call.i + 1
           end_line == Min(call.i + call.chunk_size, Len(call.lines))
           chunk_text == PySlice(call.lines, call.i, end_line)
       IN  call' = [call EXCEPT
                       !.chunks = IF StripsToText(chunk_text)
                                  THEN Append(@, [lines |-> <<start_line, end_line>>,
                                                  text |-> chunk_text])
                                  ELSE @,
                       !.i = @ + call.chunk_size - call.chunk_overlap,
                       !.iterations = @ + 1]
    /\ UNCHANGED <<faissVars, storeVars, lexVars, api_key>>

\* the loop condition fails: return chunks
ChunkReturn ==
    /\ call.op = "chunk_markdown_file"
    /\ call.pc = "loop"
    /\ ~(call.i < Len(call.lines))
    /\ call' = [call EXCEPT !.pc = "done"]
    /\ UNCHANGED <<faissVars, storeVars, lexVars, api_key>>

NextChunking == ReadLines \/ ChunkLoop \/ ChunkReturn

SpecChunking == InitChunking /\ [][NextChunking]_vars
\* the interpreter keeps running the call
SpecChunkingFair == SpecChunking /\ WF_vars(NextChunking)

\* The iterations followed suffice for every call that ends: a call whose step
\* chunk_size - chunk_overlap is positive ends within Len(lines) iterations, so
\* the only calls still in the loop after MaxIterations are those whose step is
\* zero or negative, for which i < total_lines holds for ever.
OnlyLoopsWithoutProgressAreCut ==
    (call.op = "chunk_markdown_file" /\ call.pc = "loop"
        /\ call.i < Len(call.lines) /\ call.iterations = MaxIterations)
       => (call.chunk_size - call.chunk_overlap <= 0 /\ call.i <= 0)

\* C30: chunk_markdown_file ends (it returns or raises) for every file and
\* every chunk_size and chunk_overlap.
ChunkMarkdownFileTerminates ==
    <>(call.op = "chunk_markdown_file" /\ call.pc \in {"done", "raised"})
=============================================================================
